---- MODULE Spec2Model ----
(***************************************************************************)
(* A model of the Gauntlet agent of the Ghostfolio API: the conversation   *)
(* memory service (history and intent state kept in the Redis cache) and   *)
(* the chat / chatStream orchestration of GauntletAgentService.            *)
(*                                                                         *)
(* Strings whose characters matter (they are trimmed or concatenated into  *)
(* keys) are modelled as TLA+ strings joined with \o (keys) or as tuples   *)
(* of atoms, an atom being one blank " ", one punctuation mark or one run   *)
(* of other characters (entities, message texts, tool outputs).  A value   *)
(* held in the cache is a JavaScript value: a record tagged with its       *)
(* typeof in field t.  A cached string is represented by the outcome of    *)
(* JSON.parse on its text (field json), so that JSON.stringify and         *)
(* JSON.parse are two different conversions and not the identity.          *)
(***************************************************************************)
EXTENDS Integers, Sequences, FiniteSets, TLC

VARIABLES
  cache,        \* the Redis cache: key -> [val: raw JavaScript value, ttl: ms]
  cfgMaxStored, \* configuration GAUNTLET_MAX_STORED_MESSAGES (optional)
  cfgTtl,       \* configuration GAUNTLET_CONVERSATION_TTL_MS (optional)
  now,          \* the clock read by new Date()
  ret,          \* the last call of the memory service and what it returned
  log,          \* per key: every turn appendTurn was asked to append, in order
  count,        \* calls made so far, by operation (bounds the behaviours)
  req           \* the chat request in progress: its position, locals and output

memVars == <<cache, cfgMaxStored, cfgTtl, now, ret, log, count>>

vars == <<cache, cfgMaxStored, cfgTtl, now, ret, log, count, req>>

(***************************************************************************)
(* Program constants of conversation-memory.service.ts                     *)
(***************************************************************************)
CONVERSATION_KEY_PREFIX == "gauntlet:conversation:"
INTENT_STATE_KEY_PREFIX == "gauntlet:intent-state:"
DEFAULT_MAX_HISTORY_MESSAGES == 20
DEFAULT_MAX_STORED_MESSAGES == 50
DEFAULT_MAX_RECENT_ENTITIES == 20
DEFAULT_TTL_MS == 604800000

(***************************************************************************)
(* Bounds of the model                                                     *)
(***************************************************************************)
MaxAppends == 4      \* appendTurn calls in one behaviour
MaxCfgStored == 4    \* largest configured GAUNTLET_MAX_STORED_MESSAGES tried
MaxLimit == 5        \* largest explicit getHistory limit tried
MaxUpdates == 3      \* updateIntentState calls in one behaviour
MaxIsoWrites == 3    \* writes of the two users together in one behaviour

(***************************************************************************)
(* Optional values (undefined / a value)                                   *)
(***************************************************************************)
None == [some |-> FALSE]
Some(x) == [some |-> TRUE, val |-> x]

(***************************************************************************)
(* JavaScript values                                                       *)
(***************************************************************************)
JUndef == [t |-> "undefined"]
JNull == [t |-> "null"]
JStr(s) == [t |-> "string", s |-> s]
JNum(n) == [t |-> "number", n |-> n]
JBool(b) == [t |-> "boolean", b |-> b]
JArr(xs) == [t |-> "array", items |-> xs]
JObj(f) == [t |-> "object", f |-> f]
\* a string held in the cache, by what JSON.parse makes of its text
JText(j) == [t |-> "string", json |-> j]
JSyntaxError == [t |-> "syntaxerror"]

\* o.name for a JavaScript value o (undefined when o has no such property)
Field(o, name) ==
  IF o.t = "object" /\ name \in DOMAIN o.f THEN o.f[name] ELSE JUndef

\* typeof v === 'object' (true of arrays and of null)
TypeofObject(v) == v.t \in {"object", "array", "null"}

\* Boolean(v)
Truthy(v) ==
  CASE v.t \in {"undefined", "null"} -> FALSE
    [] v.t = "boolean" -> v.b
    [] v.t = "number" -> v.n # 0
    [] v.t = "string" -> v.s # <<>>
    [] OTHER -> TRUE

JsonStringify(v) == JText(v)

(***************************************************************************)
(* Array.prototype.slice(start) and the sequence helpers                   *)
(***************************************************************************)
Max2(a, b) == IF a >= b THEN a ELSE b
Min2(a, b) == IF a <= b THEN a ELSE b

\* s.slice(start): a negative start counts from the end, and -0 is 0
JsSlice(s, start) ==
  LET k == IF start < 0 THEN Max2(Len(s) + start, 0) ELSE Min2(start, Len(s))
  IN SubSeq(s, k + 1, Len(s))

IsSuffix(s, t) ==
  /\ Len(s) <= Len(t)
  /\ s = SubSeq(t, Len(t) - Len(s) + 1, Len(t))

(***************************************************************************)
(* Keys                                                                    *)
(***************************************************************************)
GetKeyNoUser(userId, conversationId) ==
  CONVERSATION_KEY_PREFIX \o conversationId

getKey(userId, conversationId) ==
  CONVERSATION_KEY_PREFIX \o userId \o ":" \o conversationId

GetIntentStateKeyNoConversation(userId, conversationId) ==
  INTENT_STATE_KEY_PREFIX \o userId

getIntentStateKey(userId, conversationId) ==
  INTENT_STATE_KEY_PREFIX \o userId \o ":" \o conversationId

ToTtlMsDefaultOnly(ttlMs) ==
  IF ttlMs.some THEN ttlMs.val ELSE DEFAULT_TTL_MS

toTtlMs(ttlMs) ==
  IF ttlMs.some THEN ttlMs.val
  ELSE IF cfgTtl.some THEN cfgTtl.val
  ELSE DEFAULT_TTL_MS

(***************************************************************************)
(* The cache (RedisCacheService.get / set): a key that was never set, or   *)
(* has expired, reads as null                                              *)
(***************************************************************************)
CacheGet(c, key) == IF key \in DOMAIN c THEN c[key].val ELSE JNull

CacheSet(c, key, value, ttl) ==
  [k \in DOMAIN c \cup {key} |->
     IF k = key THEN [val |-> value, ttl |-> ttl] ELSE c[k]]

(***************************************************************************)
(* Stored messages                                                         *)
(***************************************************************************)
StoredMessage(type, content) ==
  JObj([type |-> JStr(<<type>>), content |-> JStr(content)])

\* the predicate of raw.every(...) in parseStored
ValidStoredMessage(m) ==
  /\ Truthy(m)
  /\ TypeofObject(m)
  /\ Field(m, "type") \in {JStr(<<"human">>), JStr(<<"ai">>)}
  /\ Field(m, "content").t = "string"

\* parseStored: the array held under the key, or [] for anything else.  The
\* elements of an array that arrives as a JSON string are not validated.
parseStored(raw) ==
  CASE raw.t \in {"null", "undefined"} -> <<>>
    [] raw.t = "array" ->
         IF \A i \in 1..Len(raw.items) : ValidStoredMessage(raw.items[i])
         THEN raw.items ELSE <<>>
    [] raw.t # "string" -> <<>>
    [] OTHER ->
         IF raw.json.t = "array" THEN raw.json.items ELSE <<>>

\* toBaseMessages: m.type throws a TypeError when m is null or undefined
toBaseMessages(stored) ==
  IF \E i \in 1..Len(stored) : stored[i].t \in {"null", "undefined"}
  THEN [threw |-> TRUE, value |-> <<>>]
  ELSE [threw |-> FALSE,
        value |-> [i \in 1..Len(stored) |->
                     [role |-> IF Field(stored[i], "type") = JStr(<<"human">>)
                               THEN "human" ELSE "ai",
                      content |-> Field(stored[i], "content")]]]

\* getHistory(conversationId, userId, limit) on cache c
getHistory(c, conversationId, userId, limit) ==
  LET stored == parseStored(CacheGet(c, getKey(userId, conversationId)))
      trimmed == JsSlice(stored, 0 - limit)
  IN toBaseMessages(trimmed)

maxStoredMessages ==
  IF cfgMaxStored.some THEN cfgMaxStored.val ELSE DEFAULT_MAX_STORED_MESSAGES

AppendTurnAssistantFirst(c, conversationId, userId, humanContent, assistantContent, ttlMs) ==
  LET key == getKey(userId, conversationId)
      stored == parseStored(CacheGet(c, key))
      pushed == stored \o <<StoredMessage("ai", assistantContent),
                            StoredMessage("human", humanContent)>>
      trimmed == JsSlice(pushed, 0 - maxStoredMessages)
  IN CacheSet(c, key, JsonStringify(JArr(trimmed)), toTtlMs(ttlMs))

\* appendTurn: the cache after the call
appendTurn(c, conversationId, userId, humanContent, assistantContent, ttlMs) ==
  LET key == getKey(userId, conversationId)
      stored == parseStored(CacheGet(c, key))
      pushed == stored \o <<StoredMessage("human", humanContent),
                            StoredMessage("ai", assistantContent)>>
      trimmed == JsSlice(pushed, 0 - maxStoredMessages)
  IN CacheSet(c, key, JsonStringify(JArr(trimmed)), toTtlMs(ttlMs))

(***************************************************************************)
(* Strings as tuples of atoms: String.prototype.trim, new Set(...)         *)
(***************************************************************************)
RECURSIVE DropLeadingBlanks(_)
DropLeadingBlanks(s) ==
  IF s # <<>> /\ Head(s) = " " THEN DropLeadingBlanks(Tail(s)) ELSE s

RECURSIVE DropTrailingBlanks(_)
DropTrailingBlanks(s) ==
  IF s # <<>> /\ s[Len(s)] = " "
  THEN DropTrailingBlanks(SubSeq(s, 1, Len(s) - 1)) ELSE s

Trim(s) == DropTrailingBlanks(DropLeadingBlanks(s))

\* Array.from(new Set(xs)): each value once, at the place of its first occurrence
ArrayFromSet(xs) ==
  LET first == {i \in 1..Len(xs) : \A j \in 1..(i - 1) : xs[j] # xs[i]}
  IN [k \in 1..Cardinality(first) |->
        xs[CHOOSE i \in first : Cardinality({j \in first : j < i}) = k - 1]]

NoDuplicates(xs) == \A i, j \in 1..Len(xs) : xs[i] = xs[j] => i = j

Range(xs) == {xs[i] : i \in 1..Len(xs)}

(***************************************************************************)
(* Intent state                                                            *)
(***************************************************************************)
IntentLabels == {"on_topic", "off_topic", "uncertain"}

\* new Date(t).toISOString()
ToISOString(t) == <<"T" \o ToString(t)>>

defaultIntentState ==
  [lastIntent |-> "uncertain",
   lastToolUsed |-> None,
   recentEntities |-> <<>>,
   pendingClarification |-> FALSE,
   updatedAt |-> ToISOString(0)]

\* JSON.stringify of a ConversationIntentState (an undefined lastToolUsed is
\* left out of the text)
IntentStateToJson(st) ==
  LET base == [lastIntent |-> JStr(<<st.lastIntent>>),
               recentEntities |->
                 JArr([i \in 1..Len(st.recentEntities) |->
                         JStr(st.recentEntities[i])]),
               pendingClarification |-> JBool(st.pendingClarification),
               updatedAt |-> JStr(st.updatedAt)]
  IN JsonStringify(JObj(IF st.lastToolUsed.some
                        THEN base @@ [lastToolUsed |-> JStr(st.lastToolUsed.val)]
                        ELSE base))

\* the recentEntities of parseIntentState: the strings of the array, trimmed,
\* the empty ones dropped, the last DEFAULT_MAX_RECENT_ENTITIES of them
ParseRecentEntities(v) ==
  IF v.t # "array" THEN <<>>
  ELSE LET strings == SelectSeq(v.items, LAMBDA e : e.t = "string")
           trimmed == [i \in 1..Len(strings) |-> Trim(strings[i].s)]
           kept == SelectSeq(trimmed, LAMBDA e : e # <<>>)
       IN JsSlice(kept, 0 - DEFAULT_MAX_RECENT_ENTITIES)

parseIntentState(raw) ==
  IF raw.t \in {"null", "undefined"} THEN defaultIntentState
  ELSE LET fromRaw == IF raw.t = "string"
                      THEN (IF raw.json.t = "syntaxerror" THEN JNull ELSE raw.json)
                      ELSE raw
       IN IF fromRaw.t \notin {"object", "array"} THEN defaultIntentState
          ELSE LET li == Field(fromRaw, "lastIntent")
                   tool == Field(fromRaw, "lastToolUsed")
                   upd == Field(fromRaw, "updatedAt")
               IN [lastIntent |->
                     IF li.t = "string" /\ Len(li.s) = 1 /\ li.s[1] \in IntentLabels
                     THEN li.s[1] ELSE "uncertain",
                   lastToolUsed |->
                     IF tool.t = "string" /\ Trim(tool.s) # <<>>
                     THEN Some(Trim(tool.s)) ELSE None,
                   recentEntities |->
                     ParseRecentEntities(Field(fromRaw, "recentEntities")),
                   pendingClarification |->
                     Truthy(Field(fromRaw, "pendingClarification")),
                   updatedAt |->
                     IF upd.t = "string" /\ upd.s # <<>> THEN upd.s
                     ELSE ToISOString(0)]

getIntentState(c, conversationId, userId) ==
  parseIntentState(CacheGet(c, getIntentStateKey(userId, conversationId)))

(***************************************************************************)
(* A patch of updateIntentState: has is the set of properties the patch    *)
(* object carries; a property outside has is absent and its field here is  *)
(* not read.                                                               *)
(***************************************************************************)
Patch(has, lastIntent, lastToolUsed, recentEntities, pendingClarification) ==
  [has |-> has,
   lastIntent |-> lastIntent,
   lastToolUsed |-> lastToolUsed,
   recentEntities |-> recentEntities,
   pendingClarification |-> pendingClarification]

MergeEntitiesNoDedupe(currentEntities, patch) ==
  LET merged == currentEntities \o
                (IF "recentEntities" \in patch.has THEN patch.recentEntities
                 ELSE <<>>)
      trimmed == [i \in 1..Len(merged) |-> Trim(merged[i])]
      kept == SelectSeq(trimmed, LAMBDA e : e # <<>>)
  IN JsSlice(kept, 0 - DEFAULT_MAX_RECENT_ENTITIES)

\* mergedEntities / uniqueEntities of updateIntentState
uniqueEntities(currentEntities, patch) ==
  LET merged == currentEntities \o
                (IF "recentEntities" \in patch.has THEN patch.recentEntities
                 ELSE <<>>)
      trimmed == [i \in 1..Len(merged) |-> Trim(merged[i])]
      kept == SelectSeq(trimmed, LAMBDA e : e # <<>>)
  IN JsSlice(ArrayFromSet(kept), 0 - DEFAULT_MAX_RECENT_ENTITIES)

NextIntentStateStampFromPatch(current, patch, time) ==
  [lastIntent |->
     IF "lastIntent" \in patch.has THEN patch.lastIntent ELSE current.lastIntent,
   lastToolUsed |->
     IF "lastToolUsed" \in patch.has THEN patch.lastToolUsed
     ELSE current.lastToolUsed,
   recentEntities |-> uniqueEntities(current.recentEntities, patch),
   pendingClarification |->
     IF "pendingClarification" \in patch.has THEN patch.pendingClarification
     ELSE current.pendingClarification,
   updatedAt |-> IF "updatedAt" \in patch.has THEN patch.updatedAt
                 ELSE ToISOString(time)]

\* the next state computed by updateIntentState
NextIntentState(current, patch, time) ==
  [lastIntent |->
     IF "lastIntent" \in patch.has THEN patch.lastIntent ELSE current.lastIntent,
   lastToolUsed |->
     IF "lastToolUsed" \in patch.has THEN patch.lastToolUsed
     ELSE current.lastToolUsed,
   recentEntities |-> uniqueEntities(current.recentEntities, patch),
   pendingClarification |->
     IF "pendingClarification" \in patch.has THEN patch.pendingClarification
     ELSE current.pendingClarification,
   updatedAt |-> ToISOString(time)]

\* updateIntentState: the cache after the call
updateIntentState(c, conversationId, userId, patch, ttlMs, time) ==
  LET key == getIntentStateKey(userId, conversationId)
      current == getIntentState(c, conversationId, userId)
      next == NextIntentState(current, patch, time)
  IN CacheSet(c, key, IntentStateToJson(next), toTtlMs(ttlMs))

(***************************************************************************)
(* The calls of the memory service as actions.  Every action records the   *)
(* call and its result in ret.                                             *)
(***************************************************************************)
LogGet(l, key) == IF key \in DOMAIN l THEN l[key] ELSE <<>>

LogAppend(l, key, turns) ==
  [k \in DOMAIN l \cup {key} |-> IF k = key THEN LogGet(l, key) \o turns ELSE l[k]]

StoredAt(c, key) == parseStored(CacheGet(c, key))

AppendTurnCall(u, conv, h, a, ttlMs) ==
  /\ count.append < MaxAppends
  /\ cache' = appendTurn(cache, conv, u, h, a, ttlMs)
  /\ log' = LogAppend(log, getKey(u, conv),
                      <<StoredMessage("human", h), StoredMessage("ai", a)>>)
  /\ ret' = [op |-> "appendTurn", user |-> u, conv |-> conv,
             human |-> h, assistant |-> a,
             before |-> StoredAt(cache, getKey(u, conv))]
  /\ count' = [count EXCEPT !.append = @ + 1]
  /\ UNCHANGED <<cfgMaxStored, cfgTtl, now, req>>

\* limit: the argument, or None for the default DEFAULT_MAX_HISTORY_MESSAGES
GetHistoryCall(u, conv, limit) ==
  /\ LET effective == IF limit.some THEN limit.val
                      ELSE DEFAULT_MAX_HISTORY_MESSAGES
     IN ret' = [op |-> "getHistory", user |-> u, conv |-> conv,
                limit |-> effective,
                result |-> getHistory(cache, conv, u, effective)]
  /\ UNCHANGED <<cache, cfgMaxStored, cfgTtl, now, log, count, req>>

GetIntentStateCall(u, conv) ==
  /\ ret' = [op |-> "getIntentState", user |-> u, conv |-> conv,
             result |-> getIntentState(cache, conv, u)]
  /\ UNCHANGED <<cache, cfgMaxStored, cfgTtl, now, log, count, req>>

UpdateIntentStateCall(u, conv, patch, ttlMs) ==
  /\ count.update < MaxUpdates
  /\ cache' = updateIntentState(cache, conv, u, patch, ttlMs, now)
  /\ ret' = [op |-> "updateIntentState", user |-> u, conv |-> conv,
             patch |-> patch,
             before |-> getIntentState(cache, conv, u),
             result |-> NextIntentState(getIntentState(cache, conv, u), patch, now)]
  /\ count' = [count EXCEPT !.update = @ + 1]
  /\ UNCHANGED <<cfgMaxStored, cfgTtl, now, log, req>>

\* the cache drops a key whose time to live has run out
Expire ==
  \E key \in DOMAIN cache :
    /\ cache' = [k \in DOMAIN cache \ {key} |-> cache[k]]
    /\ ret' = [op |-> "expire", key |-> key]
    /\ UNCHANGED <<cfgMaxStored, cfgTtl, now, log, count, req>>

InitMemory ==
  /\ cache = <<>>
  /\ now = 1
  /\ ret = [op |-> "init"]
  /\ log = <<>>
  /\ count = [append |-> 0, update |-> 0]
  /\ req = [pc |-> "none"]

(***************************************************************************)
(* SpecHistory: appendTurn and getHistory on one conversation, for every   *)
(* configured maximum of stored messages.                                  *)
(***************************************************************************)
HistoryTexts == {<<"h1">>, <<"h2">>}
Limits == {None} \cup {Some(n) : n \in 0..MaxLimit}

InitHistory ==
  /\ InitMemory
  /\ cfgMaxStored \in {None} \cup {Some(n) : n \in 0..MaxCfgStored}
  /\ cfgTtl = None

HAppendTurn ==
  \E h \in HistoryTexts, a \in {<<"a1">>}, ttlMs \in {None, Some(60000)} :
    AppendTurnCall("u1", "c1", h, a, ttlMs)

HGetHistory == \E limit \in Limits : GetHistoryCall("u1", "c1", limit)

NextHistory == HAppendTurn \/ HGetHistory \/ Expire

SpecHistory == InitHistory /\ [][NextHistory]_vars

(***************************************************************************)
(* Claims about the stored history (checked under SpecHistory)             *)
(***************************************************************************)
\* the newest n turns of the stored messages, as getHistory presents them
NewestTurns(stored, n) ==
  toBaseMessages(SubSeq(stored, Len(stored) - Min2(n, Len(stored)) + 1,
                        Len(stored)))

\* C4: getHistory returns at most `limit` turns, for every requested limit
\* (limit 0 included), and they are the newest stored turns, oldest first.
C4_GetHistoryAtMostLimit ==
  ret.op = "getHistory" =>
    /\ ~ret.result.threw
    /\ Len(ret.result.value) <= ret.limit
    /\ ret.result = NewestTurns(StoredAt(cache, getKey(ret.user, ret.conv)),
                                ret.limit)

\* C4, the case the claim fails on: limit 0 on a conversation that holds turns
C4_Witness_LimitZero ==
  /\ ret.op = "getHistory"
  /\ ret.limit = 0
  /\ StoredAt(cache, getKey(ret.user, ret.conv)) # <<>>

\* C5: after any sequence of appendTurn calls the stored sequence has at most
\* the configured maximum of entries (for every configured value), and what is
\* stored is the newest part of what was appended (oldest turns evicted).
C5_StoredAtMostMaximum ==
  \A key \in DOMAIN cache :
    /\ Len(StoredAt(cache, key)) <= maxStoredMessages
    /\ IsSuffix(StoredAt(cache, key), LogGet(log, key))

\* C5, the case the claim fails on: a configured maximum of 0
C5_Witness_MaximumZero ==
  /\ cfgMaxStored = Some(0)
  /\ ret.op = "appendTurn"

PairShape(stored) ==
  /\ Len(stored) % 2 = 0
  /\ \A i \in 1..Len(stored) :
       Field(stored[i], "type") =
         (IF i % 2 = 1 THEN JStr(<<"human">>) ELSE JStr(<<"ai">>))

AppendedPair == <<StoredMessage("human", ret.human),
                  StoredMessage("ai", ret.assistant)>>

\* C6 as stated: appendTurn(h, a) leaves human h and assistant a as the last
\* two stored turns, keeps the turns that are not evicted unchanged and in
\* order, and stored history always consists of (human, assistant) pairs.
C6_AppendsPairAlways ==
  /\ \A key \in DOMAIN cache : PairShape(StoredAt(cache, key))
  /\ ret.op = "appendTurn" =>
       LET stored == StoredAt(cache, getKey(ret.user, ret.conv))
       IN /\ IsSuffix(stored, ret.before \o AppendedPair)
          /\ IsSuffix(AppendedPair, stored)

\* C6 as amended: what is stored after appendTurn(h, a) is a suffix of the
\* old history followed by human h, assistant a; the assistant turn a is the
\* last stored turn; and when the configured maximum is even (the default 50
\* is) h, a are the last two turns and the stored history consists of
\* (human, assistant) pairs.
C6_AppendsPairWhenMaximumEven ==
  /\ maxStoredMessages % 2 = 0 =>
       \A key \in DOMAIN cache : PairShape(StoredAt(cache, key))
  /\ ret.op = "appendTurn" =>
       LET stored == StoredAt(cache, getKey(ret.user, ret.conv))
       IN /\ IsSuffix(stored, ret.before \o AppendedPair)
          /\ stored # <<>>
          /\ stored[Len(stored)] = StoredMessage("ai", ret.assistant)
          /\ maxStoredMessages % 2 = 0 => IsSuffix(AppendedPair, stored)

\* C6: an appendTurn that evicts the oldest pair, under an even maximum
C6_Witness_EvictingAppend ==
  /\ ret.op = "appendTurn"
  /\ cfgMaxStored = Some(2)
  /\ Len(ret.before) = 2
  /\ ret.before[1] # StoredMessage("human", ret.human)

(***************************************************************************)
(* SpecIntent: updateIntentState and getIntentState on one conversation.   *)
(* The entities are the names of EntityNames, bare, padded with blanks, or *)
(* blank; the patches carry runs of them long enough to pass the cap.      *)
(***************************************************************************)
EntityNames ==
  <<"AAPL", "MSFT", "BTC", "ETH", "TSLA", "NVDA", "AMZN", "GOOG", "META",
    "IBM", "ORCL", "INTC", "AMD", "NFLX", "SOL", "ADA", "XRP", "DOGE",
    "DOT", "AVAX", "MATIC", "BNB", "VTI">>

\* the entities EntityNames[from..to], one atom each
EntityRun(from, to) == [i \in 1..(to - from + 1) |-> <<EntityNames[from + i - 1]>>]

PatchEntityLists ==
  { EntityRun(1, 2),
    EntityRun(1, 12),
    EntityRun(13, 23),
    <<<<"AAPL">>>>,
    <<<<"BTC">>, <<"AAPL">>>>,
    <<<<" ", "MSFT">>, <<"MSFT", " ">>, <<>>, <<" ">>, <<"MSFT">>,
      <<"Penthouse", " ", "Apartment">>>> }

IntentPatches ==
  { Patch({"lastIntent", "pendingClarification"}, li, None, <<>>, li = "uncertain") :
      li \in {"uncertain", "off_topic"} }
  \cup
  { Patch({"lastIntent", "lastToolUsed", "recentEntities", "pendingClarification"},
          "on_topic", tool, es, FALSE) :
      tool \in {None, Some(<<"market_historical">>)}, es \in PatchEntityLists }
  \cup
  { Patch({"recentEntities"}, "uncertain", None, es, FALSE) :
      es \in PatchEntityLists }

InitIntent ==
  /\ InitMemory
  /\ cfgMaxStored = None
  /\ cfgTtl = None

IUpdateIntentState ==
  \E patch \in IntentPatches : UpdateIntentStateCall("u1", "c1", patch, None)

IGetIntentState == GetIntentStateCall("u1", "c1")

NextIntent == IUpdateIntentState \/ IGetIntentState \/ Expire

SpecIntent == InitIntent /\ [][NextIntent]_vars

\* the recentEntities array of the JSON text persisted under an intent key
PersistedEntities(key) ==
  LET items == Field(cache[key].val.json, "recentEntities").items
  IN [i \in 1..Len(items) |-> items[i].s]

\* C7: after any sequence of updateIntentState calls the persisted
\* recentEntities has at most DEFAULT_MAX_RECENT_ENTITIES entries, no
\* duplicates and no blank (empty or whitespace-only) or padded string.
C7_RecentEntitiesCappedUnique ==
  \A key \in DOMAIN cache :
    LET es == PersistedEntities(key)
    IN /\ Len(es) <= DEFAULT_MAX_RECENT_ENTITIES
       /\ NoDuplicates(es)
       /\ \A i \in 1..Len(es) : es[i] # <<>> /\ es[i] = Trim(es[i])

\* C7: an update whose merged entities pass the cap, after a patch that
\* carried duplicate, blank and padded entities
C7_Witness_CapReached ==
  /\ ret.op = "updateIntentState"
  /\ Len(ret.result.recentEntities) = DEFAULT_MAX_RECENT_ENTITIES
  /\ Len(ret.before.recentEntities) + Len(ret.patch.recentEntities)
       > DEFAULT_MAX_RECENT_ENTITIES
  /\ <<"Penthouse", " ", "Apartment">> \in Range(ret.before.recentEntities)

\* the entities a patch mentions, as they are stored
Mentioned(patch) == {Trim(patch.recentEntities[i]) : i \in 1..Len(patch.recentEntities)}

\* C8: recentEntities is ordered most-recent-last: after updateIntentState
\* with a patch that mentions entities, every stored entity of the patch
\* (one that was stored before included) comes after every stored entity the
\* patch does not mention.
C8_MostRecentLast ==
  (ret.op = "updateIntentState" /\ "recentEntities" \in ret.patch.has) =>
    LET es == ret.result.recentEntities
    IN \A i, j \in 1..Len(es) :
         (es[i] \in Mentioned(ret.patch) /\ es[j] \notin Mentioned(ret.patch))
           => j < i

\* C8, the case the claim fails on: a patch mentions an entity stored before
\* another one that it does not mention
C8_Witness_Rementioned ==
  /\ ret.op = "updateIntentState"
  /\ "recentEntities" \in ret.patch.has
  /\ \E i, j \in 1..Len(ret.before.recentEntities) :
       /\ i < j
       /\ ret.before.recentEntities[i] \in Mentioned(ret.patch)
       /\ ret.before.recentEntities[j] \notin Mentioned(ret.patch)

(***************************************************************************)
(* SpecIsolation: two users on conversation ids the clients choose.  User  *)
(* ids are the account ids the server issues (request.user.id) and hold no *)
(* ":"; a conversation id is any string of the request body, so it may     *)
(* hold ":" and another user's id.  Every text and entity a user writes is *)
(* that user's id, which makes the owner of any data read visible.         *)
(***************************************************************************)
IsoUsers == {"u1", "u12"}
IsoConversationIds == {"c", "2:c", "u12:c"}

OwnPatch(u) ==
  Patch({"lastIntent", "lastToolUsed", "recentEntities", "pendingClarification"},
        "on_topic", Some(<<u>>), <<<<u>>>>, FALSE)

InitIsolation ==
  /\ InitMemory
  /\ cfgMaxStored = None
  /\ cfgTtl = None

XAppendTurn ==
  \E u \in IsoUsers, conv \in IsoConversationIds :
    /\ count.append + count.update < MaxIsoWrites
    /\ AppendTurnCall(u, conv, <<u>>, <<u>>, None)

XUpdateIntentState ==
  \E u \in IsoUsers, conv \in IsoConversationIds :
    /\ count.append + count.update < MaxIsoWrites
    /\ UpdateIntentStateCall(u, conv, OwnPatch(u), None)

XGetHistory ==
  \E u \in IsoUsers, conv \in IsoConversationIds : GetHistoryCall(u, conv, None)

XGetIntentState ==
  \E u \in IsoUsers, conv \in IsoConversationIds : GetIntentStateCall(u, conv)

NextIsolation ==
  XAppendTurn \/ XUpdateIntentState \/ XGetHistory \/ XGetIntentState

SpecIsolation == InitIsolation /\ [][NextIsolation]_vars

\* C9: no cross-user reads: what getHistory and getIntentState return for
\* (conversation, user) was written by that user, whatever conversation ids
\* the two users supply.
C9_NoCrossUserReads ==
  /\ ret.op = "getHistory" =>
       \A i \in 1..Len(ret.result.value) :
         ret.result.value[i].content = JStr(<<ret.user>>)
  /\ ret.op = "getIntentState" =>
       /\ Range(ret.result.recentEntities) \subseteq {<<ret.user>>}
       /\ ret.result.lastToolUsed \in {None, Some(<<ret.user>>)}

\* C9: u1 reads its conversation "2:c" after u12 has written its
\* conversation "c" (the keys differ only around the separator)
C9_Witness_NearCollision ==
  /\ ret.op = "getHistory"
  /\ ret.user = "u1"
  /\ ret.conv = "2:c"
  /\ ret.result.value # <<>>
  /\ StoredAt(cache, getKey("u12", "c")) # <<>>

(***************************************************************************)
(* SpecCorrupt: getHistory and getIntentState on a cache whose values were *)
(* damaged or written by something else: any JavaScript value, or a string *)
(* whose text is or is not JSON.                                           *)
(***************************************************************************)
CorruptElements ==
  { StoredMessage("human", <<"h1">>),
    StoredMessage("ai", <<"a1">>),
    JObj([type |-> JStr(<<"system">>), content |-> JStr(<<"x">>)]),
    JObj([type |-> JStr(<<"human">>), content |-> JNum(5)]),
    JObj([content |-> JStr(<<"x">>)]),
    JNull,
    JNum(7) }

CorruptArrays ==
  {<<>>} \cup {<<e>> : e \in CorruptElements}
         \cup {<<e1, e2>> : e1 \in CorruptElements, e2 \in CorruptElements}

CorruptHistoryValues ==
  { JNull, JUndef, JNum(1), JBool(TRUE), JObj([a |-> JNum(1)]),
    JText(JSyntaxError), JText(JNum(1)), JText(JNull),
    JText(JObj([a |-> JNum(1)])) }
  \cup {JArr(xs) : xs \in CorruptArrays}
  \cup {JText(JArr(xs)) : xs \in CorruptArrays}

CorruptIntentObjects ==
  { JObj([lastIntent |-> li, recentEntities |-> es, pendingClarification |-> pc]) :
      li \in {JStr(<<"on_topic">>), JStr(<<"bogus">>), JNum(1)},
      es \in {JStr(<<"AAPL">>),
              JArr(<<JNum(1), JStr(<<" ">>), JStr(<<" ", "AAPL">>)>>)},
      pc \in {JBool(FALSE), JStr(<<"yes">>), JNum(0)} }

CorruptIntentValues ==
  { JNull, JUndef, JNum(3), JBool(TRUE), JArr(<<>>), JArr(<<JNum(1)>>),
    JText(JSyntaxError), JText(JNum(3)), JText(JStr(<<"x">>)), JText(JNull),
    JText(JArr(<<>>)) }
  \cup CorruptIntentObjects
  \cup {JText(o) : o \in CorruptIntentObjects}

InitCorrupt ==
  /\ \E h \in CorruptHistoryValues, i \in CorruptIntentValues :
       cache = CacheSet(CacheSet(<<>>, getKey("u1", "c1"), h, DEFAULT_TTL_MS),
                        getIntentStateKey("u1", "c1"), i, DEFAULT_TTL_MS)
  /\ now = 1
  /\ ret = [op |-> "init"]
  /\ log = <<>>
  /\ count = [append |-> 0, update |-> 0]
  /\ req = [pc |-> "none"]
  /\ cfgMaxStored = None
  /\ cfgTtl = None

KGetHistory ==
  \E limit \in {None, Some(1)} : GetHistoryCall("u1", "c1", limit)

KGetIntentState == GetIntentStateCall("u1", "c1")

NextCorrupt == KGetHistory \/ KGetIntentState \/ Expire

SpecCorrupt == InitCorrupt /\ [][NextCorrupt]_vars

\* the value behind a cached value: the JSON a string holds, or the value
Decoded(raw) == IF raw.t = "string" THEN raw.json ELSE raw

\* absent, not an array, or an array with an element that is no
\* {type: 'human' | 'ai', content: string}
MalformedHistory(raw) ==
  \/ Decoded(raw).t # "array"
  \/ \E i \in 1..Len(Decoded(raw).items) : ~ValidStoredMessage(Decoded(raw).items[i])

\* absent or not an object
MalformedIntent(raw) == Decoded(raw).t # "object"

\* C10: corrupted stored state reads as empty/default and never raises:
\* getHistory returns [] for every absent or malformed value, as a JSON
\* string and as a decoded array alike, and getIntentState returns the
\* defaults for every absent or malformed value.
C10_CorruptReadsAsEmpty ==
  /\ (ret.op = "getHistory"
        /\ MalformedHistory(CacheGet(cache, getKey(ret.user, ret.conv)))) =>
       ret.result = [threw |-> FALSE, value |-> <<>>]
  /\ (ret.op = "getIntentState"
        /\ MalformedIntent(CacheGet(cache, getIntentStateKey(ret.user, ret.conv)))) =>
       /\ ret.result.lastIntent = "uncertain"
       /\ ret.result.recentEntities = <<>>
       /\ ret.result.pendingClarification = FALSE

\* C10, the case the claim fails on: a JSON string whose array holds an
\* element with an invalid role tag
C10_Witness_InvalidRoleInJsonString ==
  /\ ret.op = "getHistory"
  /\ CacheGet(cache, getKey(ret.user, ret.conv)) =
       JText(JArr(<<JObj([type |-> JStr(<<"system">>), content |-> JStr(<<"x">>)])>>))

(***************************************************************************)
(* GauntletAgentService: program constants.  A confidence is a number of   *)
(* hundredths (0.93 is 93).                                                *)
(***************************************************************************)
INTENT_CONTEXT_MESSAGE_LIMIT == 4
INTENT_OFF_TOPIC_CONFIDENCE_THRESHOLD == 93
INTENT_HARD_BLOCK_CONFIDENCE_THRESHOLD == 97
INTENT_SECOND_CHANCE_MIN_CONFIDENCE == 90
SHORT_FOLLOW_UP_MAX_WORDS == 8
maxToolRounds == 5

OFF_TOPIC_MESSAGE ==
  <<"I", " ", "can", " ", "only", " ", "help", " ", "with", " ", "portfolio",
    ",", " ", "activities", ",", " ", "and", " ", "market", " ", "data", " ",
    "in", " ", "this", " ", "app", ".">>

\* 'I could not generate a response.'
NoResponseText ==
  <<"I", " ", "could", " ", "not", " ", "generate", " ", "a", " ", "response",
    ".">>

\* 'Tool not found or not invokable.'
ToolNotFoundText ==
  <<"Tool", " ", "not", " ", "found", " ", "or", " ", "not", " ", "invokable",
    ".">>

\* 'Error: OpenRouter API key is not configured. ...'
ApiKeyErrorText ==
  <<"Error", ":", " ", "OpenRouter", " ", "API", " ", "key", " ", "is", " ",
    "not", " ", "configured", ".">>

\* the names of the tools getGauntletTools returns
GauntletToolNames ==
  {"portfolio_details", "portfolio_performance", "portfolio_report",
   "activities_list", "market_historical", "cash_transfer"}

(***************************************************************************)
(* Texts are tuples of atoms.  The words of the regular expressions are    *)
(* given as vocabularies; a word outside them matches none.                *)
(***************************************************************************)
IsBlank(a) == a = " "


\* String.prototype.toLowerCase on one atom
LowerWord(w) ==
  CASE w = "How" -> "how"
    [] w = "Your" -> "your"
    [] w = "AAPL" -> "aapl"
    [] w = "MSFT" -> "msft"
    [] w = "Checking" -> "checking"
    [] w = "I" -> "i"
    [] w = "Error" -> "error"
    [] w = "Invalid" -> "invalid"
    [] w = "Required" -> "required"
    [] w = "Could" -> "could"
    [] w = "Tool" -> "tool"
    [] w = "Jan" -> "jan"
    [] w = "Dec" -> "dec"
    [] w = "Please" -> "please"
    [] w = "Use" -> "use"
    [] w = "Must" -> "must"
    [] w = "dataSource" -> "datasource"
    [] w = "YAHOO" -> "yahoo"
    [] w = "COINGECKO" -> "coingecko"
    [] w = "YYYY" -> "yyyy"
    [] w = "YYYY-MM" -> "yyyy-mm"
    [] w = "YYYY-MM-DD" -> "yyyy-mm-dd"
    [] w = "Yes" -> "yes"
    [] w = "No" -> "no"
    [] w = "N" -> "n"
    [] OTHER -> w

toLowerCase(text) == [i \in 1..Len(text) |-> LowerWord(text[i])]

\* the number of characters of a text
RECURSIVE CharLen(_)
CharLen(text) ==
  IF text = <<>> THEN 0 ELSE Len(Head(text)) + CharLen(Tail(text))

\* DOMAIN_KEYWORD_REGEX, its one-word and its two-word alternatives
DomainKeywordWords ==
  {"portfolio", "allocation", "holding", "holdings", "position", "positions",
   "investment", "investments", "performance", "return", "returns", "pnl",
   "profit", "loss", "drawdown", "activity", "activities", "transaction",
   "transactions", "order", "orders", "bought", "sold", "buy", "sell",
   "report", "compliance", "historical", "price", "prices"}

DomainKeywordPhrases ==
  {<<"account", " ", "summary">>, <<"rule", " ", "violation">>,
   <<"rule", " ", "violations">>, <<"risk", " ", "check">>,
   <<"market", " ", "data">>}

\* DATE_OR_RANGE_REGEX (a date is one atom of the form dddd-dd-dd)
DateOrRangeWords ==
  {"last", "since", "from", "to", "between", "month", "quarter", "year",
   "ytd", "2024-01-15"}

\* TICKER_LIKE_REGEX: the atoms made of two to ten capital letters
TickerLikeWords == {"AAPL", "MSFT", "YAHOO", "COINGECKO", "YYYY"}

\* the atoms that start with a capital letter (the title pattern)
CapitalizedWords == TickerLikeWords \cup
  {"How", "Your", "Checking", "I", "Tool", "Error", "Invalid", "Required",
   "Could", "Please", "Use", "Must", "Jan", "Dec", "YYYY-MM", "YYYY-MM-DD"}

\* the matches of /\b[A-Z]{2,10}\b/g in a text, left to right (an atom
\* holds at most three)
TickerMatches(content) ==
  LET \* the matches inside one atom
      TickersIn(a) ==
        CASE a \in TickerLikeWords -> <<<<a>>>>
          [] a = "YYYY-MM" -> <<<<"YYYY">>, <<"MM">>>>
          [] a = "YYYY-MM-DD" -> <<<<"YYYY">>, <<"MM">>, <<"DD">>>>
          [] OTHER -> <<>>
      slots == [k \in 1..(3 * Len(content)) |->
                  LET t == TickersIn(content[((k - 1) \div 3) + 1])
                      j == ((k - 1) % 3) + 1
                  IN IF j <= Len(t) THEN t[j] ELSE <<>>]
  IN SelectSeq(slots, LAMBDA t : t # <<>>)

\* FOLLOW_UP_PRONOUN_REGEX
FollowUpPronounWords ==
  {"it", "that", "this", "those", "them", "there", "one", "ones"}

\* OUT_OF_DOMAIN_REGEX
OutOfDomainWords ==
  {"weather", "recipe", "movie", "music", "joke", "sports", "travel",
   "politics", "coding", "programming", "typescript", "javascript"}

\* pairs <<part, word>> of the vocabulary: part occurs inside word
WithinWord ==
  {<<"how", "show">>, <<"no", "not">>, <<"no", "know">>, <<"your", "yours">>}

hasDomainKeyword(message) ==
  LET m == toLowerCase(message)
  IN \/ \E i \in 1..Len(m) : m[i] \in DomainKeywordWords
     \/ \E i \in 1..(Len(m) - 2) : SubSeq(m, i, i + 2) \in DomainKeywordPhrases

countWords(message) ==
  Len(SelectSeq(Trim(message), LAMBDA a : ~IsBlank(a)))

isShortFollowUp(message) == countWords(message) <= SHORT_FOLLOW_UP_MAX_WORDS

hasOutOfDomainSignal(message) ==
  \E i \in 1..Len(message) : LowerWord(message[i]) \in OutOfDomainWords

isLikelyFollowUp(message) ==
  \/ isShortFollowUp(message)
  \/ \E i \in 1..Len(message) : LowerWord(message[i]) \in FollowUpPronounWords

\* String.prototype.includes
Includes(text, part) ==
  \/ part = <<>>
  \/ \E i \in 1..(Len(text) - Len(part) + 1) :
       SubSeq(text, i, i + Len(part) - 1) = part
  \/ /\ Len(part) = 1
     /\ \E i \in 1..Len(text) : <<part[1], text[i]>> \in WithinWord

hasRecentEntityHint(message, recentEntities) ==
  LET normalized == toLowerCase(message)
  IN \E k \in 1..Len(recentEntities) :
       LET compact == Trim(recentEntities[k])
       IN CharLen(compact) >= 2 /\ Includes(normalized, toLowerCase(compact))

hasMarketEntityHint(message, recentEntities) ==
  LET directTicker == \E i \in 1..Len(message) : message[i] \in TickerLikeWords
      dateOrRange ==
        \E i \in 1..Len(message) : LowerWord(message[i]) \in DateOrRangeWords
      tickerWithDate == directTicker /\ dateOrRange
      recentEntity == hasRecentEntityHint(message, recentEntities)
  IN tickerWithDate \/ directTicker \/ recentEntity

\* the end of the title match that starts at c[j] and has n words so far
RECURSIVE TitleEnd(_, _, _)
TitleEnd(c, j, n) ==
  LET More(k) == /\ \A x \in (j + 1)..(k - 1) : IsBlank(c[x])
                 /\ c[k] \in CapitalizedWords
  IN IF n < 6 /\ \E k \in (j + 2)..Len(c) : More(k)
     THEN TitleEnd(c, CHOOSE k \in (j + 2)..Len(c) : More(k), n + 1)
     ELSE j

\* the matches of the title pattern from c[i] on, left to right
RECURSIVE TitleMatches(_, _)
TitleMatches(c, i) ==
  LET starts == {k \in i..Len(c) : c[k] \in CapitalizedWords}
  IN IF starts = {} THEN <<>>
     ELSE LET first == CHOOSE k \in starts : \A x \in starts : k <= x
          IN <<SubSeq(c, first, TitleEnd(c, first, 1))>>
             \o TitleMatches(c, TitleEnd(c, first, 1) + 1)

extractEntitiesFromText(content) ==
  LET entities == TickerMatches(content) \o TitleMatches(content, 1)
      trimmed == [i \in 1..Len(entities) |-> Trim(entities[i])]
      kept == SelectSeq(trimmed, LAMBDA e : CharLen(e) >= 2)
  IN ArrayFromSet(JsSlice(kept, 0 - 30))

\* [a, b, ...].join('\n')
RECURSIVE JoinLines(_)
JoinLines(texts) ==
  IF texts = <<>> THEN <<>>
  ELSE IF Len(texts) = 1 THEN texts[1]
  ELSE texts[1] \o <<" ">> \o JoinLines(Tail(texts))

(***************************************************************************)
(* The classifier's answer and the gate                                    *)
(***************************************************************************)
Classification(label, confidence) == [label |-> label, confidence |-> confidence]

\* an answer of the classification model, by what JSON.parse makes of its
\* text: JSyntaxError for text that is not JSON, else the parsed value. A
\* string value is a text of atoms; a confidence is held in hundredths.
RawClassification(label, confidence) ==
  JObj([k \in {n \in {"label"} : label.some}
              \cup {n \in {"confidence"} : confidence.some} |->
          IF k = "label" THEN JStr(<<label.val>>) ELSE JNum(confidence.val)])

NotJson == JSyntaxError

LowerLabel(l) ==
  CASE l = "ON_TOPIC" -> "on_topic"
    [] l = "OFF_TOPIC" -> "off_topic"
    [] l = "Uncertain" -> "uncertain"
    [] OTHER -> l

ClampConfidenceFromAbove(confidence) == Min2(100, confidence)

\* Math.min(1, Math.max(0, confidence))
ClampConfidence(confidence) == Min2(100, Max2(0, confidence))

\* String(v) of a parsed JSON value raises a TypeError when v is an object
\* with a property toString (no JSON value is callable, and valueOf does
\* not yield a primitive)
StringThrows(v) == v.t = "object" /\ "toString" \in DOMAIN v.f

parseIntentClassification(intentText) ==
  LET parsed == intentText
      rawLabel == Field(parsed, "label")
      confidence == Field(parsed, "confidence")
      reason == Field(parsed, "reason")
      \* JSON.parse throws; parsed.label of null throws;
      \* (parsed.label ?? '').toLowerCase is no function for a label that
      \* is neither a string nor null nor undefined
      threwBeforeTest ==
        \/ parsed.t = "syntaxerror"
        \/ parsed.t = "null"
        \/ rawLabel.t \notin {"undefined", "null", "string"}
      label == IF rawLabel.t = "string"
               THEN [i \in 1..Len(rawLabel.s) |-> LowerLabel(rawLabel.s[i])]
               ELSE <<>>
  IN IF /\ ~threwBeforeTest
        /\ label \in {<<l>> : l \in IntentLabels}
        /\ confidence.t = "number"
        /\ ~StringThrows(IF reason.t \in {"undefined", "null"} THEN JStr(<<>>)
                         ELSE reason)
     THEN Classification(label[1], ClampConfidence(confidence.n))
     ELSE Classification("uncertain", 50)

ShouldTreatAsOffTopicIgnoringHits(keywordHit, entityHit, label, confidence) ==
  label = "off_topic" /\ confidence >= INTENT_HARD_BLOCK_CONFIDENCE_THRESHOLD

shouldTreatAsOffTopic(keywordHit, entityHit, label, confidence) ==
  IF keywordHit \/ entityHit THEN FALSE
  ELSE IF label = "on_topic" THEN FALSE
  ELSE IF label = "off_topic" /\ confidence >= INTENT_HARD_BLOCK_CONFIDENCE_THRESHOLD
       THEN TRUE
  ELSE FALSE

NearThresholdFromClarificationThreshold(c) ==
  /\ c.label = "off_topic"
  /\ c.confidence >= INTENT_OFF_TOPIC_CONFIDENCE_THRESHOLD
  /\ c.confidence < INTENT_HARD_BLOCK_CONFIDENCE_THRESHOLD

nearThresholdOffTopic(c) ==
  /\ c.label = "off_topic"
  /\ c.confidence >= INTENT_SECOND_CHANCE_MIN_CONFIDENCE
  /\ c.confidence < INTENT_HARD_BLOCK_CONFIDENCE_THRESHOLD

ShortFollowUpOverrideAnyLastIntent(message, intentState) ==
  /\ isLikelyFollowUp(message)
  /\ ~hasOutOfDomainSignal(message)

shortFollowUpOverride(message, intentState) ==
  /\ isLikelyFollowUp(message)
  /\ intentState.lastIntent = "on_topic"
  /\ ~hasOutOfDomainSignal(message)

\* the condition of the second classification call
secondChance(keywordHit, entityHit, followUp, c) ==
  /\ ~keywordHit
  /\ ~entityHit
  /\ ~followUp
  /\ (c.label = "uncertain" \/ nearThresholdOffTopic(c))

ShouldAskClarificationFromSecondChanceBand(isOffTopic, keywordHit, entityHit, followUp, c) ==
  /\ ~isOffTopic
  /\ ~keywordHit
  /\ ~entityHit
  /\ ~followUp
  /\ \/ c.label = "uncertain"
     \/ c.label = "off_topic"
        /\ c.confidence >= INTENT_SECOND_CHANCE_MIN_CONFIDENCE

shouldAskClarification(isOffTopic, keywordHit, entityHit, followUp, c) ==
  /\ ~isOffTopic
  /\ ~keywordHit
  /\ ~entityHit
  /\ ~followUp
  /\ \/ c.label = "uncertain"
     \/ c.label = "off_topic"
        /\ c.confidence >= INTENT_OFF_TOPIC_CONFIDENCE_THRESHOLD

(***************************************************************************)
(* The replies the service composes                                        *)
(***************************************************************************)
\* xs.join(sep)
RECURSIVE JoinWith(_, _)
JoinWith(xs, sep) ==
  IF xs = <<>> THEN <<>>
  ELSE IF Len(xs) = 1 THEN xs[1]
  ELSE xs[1] \o sep \o JoinWith(Tail(xs), sep)

BuildClarificationQuestionThreeEntities(lastToolUsed, recentEntities) ==
  <<"Do", " ", "you", " ", "mean", " ">>
  \o JoinWith(JsSlice(recentEntities, 0 - 3), <<" ", "/", " ">>)

buildClarificationQuestion(lastToolUsed, recentEntities) ==
  LET entityHint == JoinWith(JsSlice(recentEntities, 0 - 2), <<" ", "/", " ">>)
      toolHint ==
        IF lastToolUsed = Some(<<"portfolio_performance">>) THEN <<"performance">>
        ELSE IF lastToolUsed = Some(<<"activities_list">>)
             THEN <<"recent", " ", "activities">>
        ELSE IF lastToolUsed = Some(<<"market_historical">>)
             THEN <<"market", " ", "prices">>
        ELSE <<"portfolio", " ", "holdings">>
  IN IF entityHint # <<>>
     THEN <<"Do", " ", "you", " ", "mean", " ">> \o entityHint
          \o <<" ", "in", " ", "your", " ">> \o toolHint
          \o <<" ", "context", "?", " ", "I", " ", "can", " ", "help", " ",
               "with", " ", "holdings", ",", " ", "performance", ",", " ",
               "activities", ",", " ", "or", " ", "historical", " ", "prices",
               ".">>
     ELSE <<"Can", " ", "you", " ", "clarify", " ", "what", " ", "you", " ",
            "mean", "?", " ", "I", " ", "can", " ", "help", " ", "with", " ",
            "portfolio", " ", "holdings", ",", " ", "performance", ",", " ",
            "activities", ",", " ", "or", " ", "historical", " ", "prices",
            ".">>

\* String.prototype.toUpperCase on one atom
UpperWord(w) ==
  CASE w = "msft" -> "MSFT"
    [] w = "is" -> "IS"
    [] w = "what" -> "WHAT"
    [] w = "and" -> "AND"
    [] w = "please" -> "PLEASE"
    [] w = "show" -> "SHOW"
    [] w = "tell" -> "TELL"
    [] w = "btc" -> "BTC"
    [] w = "price" -> "PRICE"
    [] OTHER -> w

toUpperCase(text) == [i \in 1..Len(text) |-> UpperWord(text[i])]

StartsWith(text, prefix) ==
  Len(text) >= Len(prefix) /\ SubSeq(text, 1, Len(prefix)) = prefix

\* an object without properties
EmptyObject == [k \in {} |-> JUndef]

\* args.name of an arguments object (undefined when absent)
ArgOf(args, name) == IF name \in DOMAIN args THEN args[name] ELSE JUndef

\* args.name = value
WithArg(args, name, value) ==
  [k \in DOMAIN args \cup {name} |-> IF k = name THEN value ELSE args[k]]

\* the arguments of a tool call as the model sends them: an object with the
\* symbol, or without properties
ToolArgs(symbol) ==
  JObj(IF symbol.some THEN WithArg(EmptyObject, "symbol", JStr(symbol.val))
       ELSE EmptyObject)

BuildMarketHistoricalQuestionEchoingError(toolOutput, attemptedArgs) ==
  IF StartsWith(toLowerCase(toolOutput), <<"error", ":">>)
  THEN Some(toolOutput)
  ELSE None

buildMarketHistoricalArgumentQuestion(toolOutput, attemptedArgs) ==
  LET normalized == toLowerCase(toolOutput)
      Missing(name) == /\ Includes(normalized, <<name, ":">>)
                       /\ Includes(normalized, <<"required">>)
      missingArgs ==
        (IF Missing("symbol") THEN <<<<"symbol">>>> ELSE <<>>)
        \o (IF Missing("datasource") THEN <<<<"dataSource">>>> ELSE <<>>)
        \o (IF Missing("from") THEN <<<<"from">>>> ELSE <<>>)
        \o (IF Missing("to") THEN <<<<"to">>>> ELSE <<>>)
      maybeSymbol ==
        IF /\ ArgOf(attemptedArgs, "symbol").t = "string"
           /\ Trim(ArgOf(attemptedArgs, "symbol").s) # <<>>
        THEN toUpperCase(Trim(ArgOf(attemptedArgs, "symbol").s))
        ELSE <<"the", " ", "symbol">>
      formats == <<"YYYY", ",", " ", "YYYY-MM", ",", " ", "or", " ",
                   "YYYY-MM-DD">>
  IN IF ~StartsWith(normalized, <<"error", ":">>) THEN None
     ELSE IF missingArgs # <<>>
          THEN Some(<<"I", " ", "need", " ", "a", " ", "few", " ", "details",
                      " ", "before", " ", "I", " ", "can", " ", "fetch", " ",
                      "historical", " ", "prices", " ", "for", " ">>
                    \o maybeSymbol \o <<":", " ">>
                    \o JoinWith(missingArgs, <<",", " ">>)
                    \o <<".", " ", "Please", " ", "provide", " ", "symbol", ",",
                         " ", "dataSource", " ", "(", "YAHOO", " ", "for", " ",
                         "stocks", " ", "or", " ", "COINGECKO", " ", "for", " ",
                         "crypto", ")", ",", " ", "and", " ", "from", "/", "to",
                         " ", "dates", " ", "in", " ">>
                    \o formats \o <<".">>)
     ELSE IF Includes(normalized, <<"invalid", " ", "date", " ", "format">>)
          THEN Some(<<"Please", " ", "provide", " ", "valid", " ", "from", "/",
                      "to", " ", "dates", " ", "in", " ">> \o formats
                    \o <<" ", "format", " ", "(", "for", " ", "example", ":",
                         " ", "from", "=", "2020", " ", "and", " ", "to", "=",
                         "2020", ",", " ", "or", " ", "from", "=", "2020-01-01",
                         " ", "and", " ", "to", "=", "2020-12-31", ")", ".">>)
     ELSE IF Includes(normalized,
                      <<"from", " ", "date", " ", "must", " ", "be", " ",
                        "before", " ", "or", " ", "equal", " ", "to", " ", "to",
                        " ", "date">>)
          THEN Some(<<"Your", " ", "date", " ", "range", " ", "looks", " ",
                      "reversed", ".", " ", "Please", " ", "provide", " ",
                      "from", " ", "<=", " ", "to", " ", "(", "for", " ",
                      "example", ":", " ", "from", "=", "2020-01-01", ",", " ",
                      "to", "=", "2020-12-31", ")", ".">>)
     ELSE IF Includes(normalized, <<"invalid", " ", "datasource">>)
          THEN Some(<<"Please", " ", "provide", " ", "a", " ", "valid", " ",
                      "dataSource", ".", " ", "Use", " ", "YAHOO", " ", "for",
                      " ", "stocks", " ", "(", "like", " ", "MSFT", ")", " ",
                      "or", " ", "COINGECKO", " ", "for", " ", "crypto", ".">>)
     ELSE None

\* the words of extractTickerCandidate's deny list
TickerDenyList ==
  {"give", "report", "price", "market", "value", "year", "from", "to", "for",
   "data"}

PunctuationMarks == {".", ",", ":", ";", "?", "/", "(", ")", "=", "<="}

\* the atoms made of two to ten small letters
IsLooseTicker(a) ==
  /\ ~IsBlank(a)
  /\ a \notin PunctuationMarks
  \* not an atom with a digit or a capital letter in it
  /\ a \notin CapitalizedWords \cup
       {"2024-01-15", "2020-01-01", "2020-12-31", "2024", "2020", "2019",
        "15", "5", "32", "dataSource"}
  /\ Len(a) >= 2
  /\ Len(a) <= 10

extractTickerCandidate(text) ==
  LET upperTicker == TickerMatches(text)
      looseTicker == SelectSeq(text, IsLooseTicker)
      allowed == SelectSeq(looseTicker, LAMBDA a : a \notin TickerDenyList)
  IN IF upperTicker # <<>> THEN Some(upperTicker[Len(upperTicker)])
     ELSE IF allowed # <<>> THEN Some(<<UpperWord(allowed[1])>>)
     ELSE None

extractYearCandidate(text) ==
  LET \* the match of /\b(19|20)\d{2}\b/ inside one atom
      YearIn(a) ==
        CASE a \in {"2024", "2020", "2019"} -> Some(a)
          [] a = "2024-01-15" -> Some("2024")
          [] a \in {"2020-01-01", "2020-12-31"} -> Some("2020")
          [] OTHER -> None
      years == SelectSeq(text, LAMBDA a : YearIn(a).some)
  IN IF years = <<>> THEN None ELSE YearIn(years[1])

MONTH_NAME_TO_NUMBER ==
  [jan |-> "01", january |-> "01", feb |-> "02", february |-> "02",
   mar |-> "03", march |-> "03", apr |-> "04", april |-> "04", may |-> "05",
   jun |-> "06", june |-> "06", jul |-> "07", july |-> "07", aug |-> "08",
   august |-> "08", sep |-> "09", sept |-> "09", september |-> "09",
   oct |-> "10", october |-> "10", nov |-> "11", november |-> "11",
   dec |-> "12", december |-> "12"]

extractMonthDayCandidate(text) ==
  LET \* the atoms [0-3]?\d matches as a whole, with their numbers
      DayNumbers == [d \in {"5", "15", "32"} |-> CASE d = "5" -> 5
                                                     [] d = "15" -> 15
                                                     [] d = "32" -> 32]
      \* String(dayNumber).padStart(2, '0')
      PadDay(d) == IF Len(d) = 1 THEN "0" \o d ELSE d
      IsMatch(i) ==
        /\ LowerWord(text[i]) \in DOMAIN MONTH_NAME_TO_NUMBER
        /\ \E k \in (i + 2)..Len(text) :
             /\ \A x \in (i + 1)..(k - 1) : IsBlank(text[x])
             /\ text[k] \in DOMAIN DayNumbers
      matches == {i \in 1..Len(text) : IsMatch(i)}
  IN IF matches = {} THEN None
     ELSE LET i == CHOOSE m \in matches : \A x \in matches : m <= x
              k == CHOOSE d \in (i + 2)..Len(text) :
                     /\ \A x \in (i + 1)..(d - 1) : IsBlank(text[x])
                     /\ text[d] \in DOMAIN DayNumbers
              dayNumber == DayNumbers[text[k]]
          IN IF dayNumber < 1 \/ dayNumber > 31 THEN None
             ELSE Some([month |-> MONTH_NAME_TO_NUMBER[LowerWord(text[i])],
                        day |-> PadDay(text[k])])

CRYPTO_SYMBOLS ==
  {"BTC", "ETH", "SOL", "ADA", "XRP", "DOGE", "DOT", "AVAX", "MATIC", "BNB"}

\* toTextContent of a message content
toTextContent(content) == IF content.t = "string" THEN content.s ELSE <<>>

GetRecentUserMessagesCurrentOnly(history, currentMessage) == <<currentMessage>>

getRecentUserMessages(history, currentMessage) ==
  LET humans == SelectSeq(history, LAMBDA m : m.role = "human")
  IN [i \in 1..Len(humans) |-> toTextContent(humans[i].content)]
     \o <<currentMessage>>

hydrateMarketHistoricalArgs(rawArgs, currentMessage, history) ==
  LET contextText == JoinLines(getRecentUserMessages(history, currentMessage))
      \* typeof v !== 'string' || !v.trim()
      NotFilled(v) == v.t # "string" \/ Trim(v.s) = <<>>
      \* a ?? b
      OrElse(a, b) == IF a.some THEN a ELSE b
      \* if (typeof args.name !== 'string' || !args.name.trim()) args.name = value
      Fill(args, name, value) ==
        IF NotFilled(ArgOf(args, name)) THEN WithArg(args, name, value) ELSE args
      \* if ((typeof args.symbol !== 'string' || ...) && symbol) args.symbol = symbol
      WithSymbol(args, symbol) ==
        IF symbol.some THEN Fill(args, "symbol", JStr(symbol.val)) ELSE args
      InferredDate(year, monthDay) ==
        JStr(<<year \o "-" \o monthDay.month \o "-" \o monthDay.day>>)
      \* if (monthDay && yearFromContext) ... else if (yearFromCurrent) ...
      WithDates(args, yearFromCurrent, yearFromContext, monthDay) ==
        IF monthDay.some /\ yearFromContext.some
        THEN Fill(Fill(args, "from",
                       InferredDate(yearFromContext.val, monthDay.val)),
                  "to", InferredDate(yearFromContext.val, monthDay.val))
        ELSE IF yearFromCurrent.some
        THEN Fill(Fill(args, "from", JStr(<<yearFromCurrent.val>>)),
                  "to", JStr(<<yearFromCurrent.val>>))
        ELSE args
      \* if (typeof args.from === 'string' && args.from.trim() && !args.to)
      WithTo(args) ==
        IF ~NotFilled(ArgOf(args, "from")) /\ NotFilled(ArgOf(args, "to"))
        THEN WithArg(args, "to", ArgOf(args, "from"))
        ELSE args
      \* if (typeof args.to === 'string' && args.to.trim() && !args.from)
      WithFrom(args) ==
        IF ~NotFilled(ArgOf(args, "to")) /\ NotFilled(ArgOf(args, "from"))
        THEN WithArg(args, "from", ArgOf(args, "to"))
        ELSE args
      Upper(symbol) ==
        IF symbol.t = "string" THEN toUpperCase(Trim(symbol.s)) ELSE <<>>
      InferredSource(upper) ==
        IF Len(upper) = 1 /\ upper[1] \in CRYPTO_SYMBOLS
        THEN JStr(<<"COINGECKO">>) ELSE JStr(<<"YAHOO">>)
      \* if ((typeof args.dataSource !== 'string' || ...) && typeof args.symbol === 'string')
      WithDataSource(args) ==
        IF NotFilled(ArgOf(args, "dataSource"))
           /\ Upper(ArgOf(args, "symbol")) # <<>>
        THEN WithArg(args, "dataSource",
                     InferredSource(Upper(ArgOf(args, "symbol"))))
        ELSE args
  IN WithDataSource(WithFrom(WithTo(
       WithDates(
         WithSymbol(IF rawArgs.t = "object" THEN rawArgs.f ELSE EmptyObject,
                    OrElse(extractTickerCandidate(currentMessage),
                           extractTickerCandidate(contextText))),
         extractYearCandidate(currentMessage),
         OrElse(extractYearCandidate(currentMessage),
                extractYearCandidate(contextText)),
         extractMonthDayCandidate(currentMessage)))))

(***************************************************************************)
(* Model responses, tool calls and tool outputs                            *)
(***************************************************************************)
ToolCall(name, args) == [name |-> name, args |-> args]

\* what one call of the tool-augmented model returns
ModelResponse(text, tool_calls) == [text |-> text, tool_calls |-> tool_calls]

\* input.replace(/\s+/g, ' ').trim()
RECURSIVE CollapseBlanks(_)
CollapseBlanks(text) ==
  IF Len(text) < 2 THEN text
  ELSE IF IsBlank(text[1]) /\ IsBlank(text[2]) THEN CollapseBlanks(Tail(text))
  ELSE <<text[1]>> \o CollapseBlanks(Tail(text))

normalizeCompact(input) == Trim(CollapseBlanks(input))

FinalTextNoDefault(text) == Trim(text)

\* text.trim() || 'I could not generate a response.'
FinalText(text) == IF Trim(text) # <<>> THEN Trim(text) ELSE NoResponseText

\* the result of running the tool calls of one round from call i on.  acc
\* holds the names invoked, the output snippets and the tool messages so far;
\* a market_historical output that asks for a clarification ends the round.
RECURSIVE RunToolCalls(_, _, _, _, _, _, _)
RunToolCalls(calls, outputs, i, message, history, hydrate, acc) ==
  IF i > Len(calls) THEN acc
  ELSE
    LET tc == calls[i]
        args == IF hydrate /\ tc.name = "market_historical"
                THEN hydrateMarketHistoricalArgs(tc.args, message, history)
                ELSE tc.args
        content == IF tc.name \in GauntletToolNames THEN outputs[i]
                   ELSE ToolNotFoundText
        clarification ==
          IF hydrate /\ tc.name = "market_historical"
          THEN buildMarketHistoricalArgumentQuestion(content, args)
          ELSE None
        invoked == Append(acc.invokedToolNames, tc.name)
    IN IF clarification.some
       THEN [acc EXCEPT !.invokedToolNames = invoked,
                        !.clarification = clarification,
                        !.content = content]
       ELSE RunToolCalls(calls, outputs, i + 1, message, history, hydrate,
              [acc EXCEPT !.invokedToolNames = invoked,
                          !.toolOutputSnippets = Append(@, normalizeCompact(content)),
                          !.toolResults = Append(@, content),
                          !.content = content])

ToolRun(invokedToolNames, toolOutputSnippets) ==
  [invokedToolNames |-> invokedToolNames,
   toolOutputSnippets |-> toolOutputSnippets,
   toolResults |-> <<>>,
   clarification |-> None,
   content |-> <<>>]

(***************************************************************************)
(* A chat request: the locals of chat / chatStream, the items delivered to *)
(* the caller (out, result) and what the request did (calls, persisted).   *)
(***************************************************************************)
IdItem(id) == [kind |-> "conversationId", id |-> id]
Chunk(text) == [kind |-> "chunk", text |-> text]

\* crypto.randomUUID(): an id no conversation is stored under
createConversationId == "generated-uuid"

\* String.prototype.trim on a conversation id
TrimId(id) ==
  CASE id = " " -> ""
    [] id = " c1 " -> "c1"
    [] OTHER -> id

ConversationIdOf(initialConversationId) ==
  IF initialConversationId.some /\ TrimId(initialConversationId.val) # ""
  THEN TrimId(initialConversationId.val)
  ELSE createConversationId

NewRequest(fn, initialConversationId, message, apiKey) ==
  [fn |-> fn,
   pc |-> "start",
   initialConversationId |-> initialConversationId,
   conversationId |-> "",
   userId |-> "u1",
   message |-> message,
   apiKey |-> apiKey,
   intentState |-> defaultIntentState,
   intentClassification |-> Classification("uncertain", 50),
   keywordHit |-> FALSE,
   entityHit |-> FALSE,
   shortFollowUpOverride |-> FALSE,
   secondChanceUsed |-> FALSE,
   decision |-> "none",
   history |-> <<>>,
   round |-> 0,
   accumulated |-> ModelResponse(<<>>, <<>>),
   invokedToolNames |-> <<>>,
   toolOutputSnippets |-> <<>>,
   content |-> <<>>,
   intentInput |-> None,
   classifier |-> None,
   earlier |-> None,
   cancelled |-> None,
   out |-> <<>>,
   roundChunks |-> <<>>,
   result |-> None,
   path |-> "running",
   classifierCalls |-> 0,
   modelCalls |-> 0,
   toolRounds |-> 0,
   toolCalls |-> 0,
   persisted |-> <<>>,
   intentUpdates |-> <<>>]

ClarifyPatchPendingOnly ==
  Patch({"pendingClarification"}, "uncertain", None, <<>>, TRUE)

\* the patches chatStream passes to updateIntentState
ClarifyPatch ==
  Patch({"lastIntent", "pendingClarification"}, "uncertain", None, <<>>, TRUE)

OffTopicPatchPending ==
  Patch({"lastIntent", "pendingClarification"}, "off_topic", None, <<>>, TRUE)

OffTopicPatch ==
  Patch({"lastIntent", "pendingClarification"}, "off_topic", None, <<>>, FALSE)

FullPatch(lastIntent, lastToolUsed, recentEntities, pendingClarification) ==
  Patch({"lastIntent", "lastToolUsed", "recentEntities", "pendingClarification"},
        lastIntent, lastToolUsed, recentEntities, pendingClarification)

\* lastToolUsed of the final update: the last tool invoked, or the stored one
LastToolUsed(invokedToolNames, intentState) ==
  IF Len(invokedToolNames) > 0
  THEN Some(<<invokedToolNames[Len(invokedToolNames)]>>)
  ELSE intentState.lastToolUsed

\* the answers of the classification model that are tried
ClassifierAnswers ==
  {NotJson, RawClassification(None, Some(97))}
  \cup {RawClassification(Some(l), c) :
          l \in {"on_topic", "off_topic", "OFF_TOPIC", "uncertain", "maybe"},
          c \in {None, Some(0 - 5), Some(89), Some(90), Some(93), Some(96),
                 Some(97), Some(150)}}

\* the responses of the tool-augmented model that are tried
AnswerText == <<" ", "Your", " ", "portfolio", " ", "holds", " ", "MSFT", " ">>

ModelResponses ==
  {ModelResponse(AnswerText, <<>>),
   ModelResponse(<<>>, <<>>),
   ModelResponse(<<" ">>, <<>>),
   ModelResponse(<<>>, <<ToolCall("market_historical", ToolArgs(Some(<<"msft">>))),
                         ToolCall("portfolio_details", ToolArgs(None))>>),
   ModelResponse(<<"Checking", " ">>,
                 <<ToolCall("market_historical", ToolArgs(None)),
                   ToolCall("web_search", ToolArgs(None))>>)}

\* the outputs of the tools that are tried
DetailsOutput == <<"Your", " ", "holdings", ":", " ", "AAPL">>

ToolOutputs(name) ==
  IF name = "market_historical"
  THEN {<<"Error", ":", " ", "Could", " ", "not", " ", "retrieve", " ",
          "market", " ", "historical", " ", "data", ".">>,
        <<"Error", ":", " ", "Invalid", " ", "arguments", ".", " ", "symbol",
          ":", " ", "Required", ";", " ", "from", ":", " ", "Required", ";",
          " ", "to", ":", " ", "Required", ".">>,
        <<"Error", ":", " ", "Invalid", " ", "date", " ", "format", ".">>,
        <<"Error", ":", " ", "from", " ", "date", " ", "must", " ", "be", " ",
          "before", " ", "or", " ", "equal", " ", "to", " ", "to", " ", "date",
          ".">>,
        <<"Error", ":", " ", "Invalid", " ", "dataSource", ".", " ", "Must",
          " ", "be", " ", "one", " ", "of", ":", " ", "YAHOO", ",", " ",
          "COINGECKO", ".">>}
  ELSE {DetailsOutput}

\* one output for each call of a round
OutputsFor(calls) ==
  {o \in [1..Len(calls) ->
            ToolOutputs("market_historical") \cup ToolOutputs("portfolio_details")] :
     \A i \in 1..Len(calls) : o[i] \in ToolOutputs(calls[i].name)}

(***************************************************************************)
(* chatStream, step by step                                                *)
(***************************************************************************)
StreamStartWithoutKeyCheck ==
  /\ req.fn = "chatStream"
  /\ req.pc = "start"
  /\ LET conversationId == ConversationIdOf(req.initialConversationId)
     IN req' = [req EXCEPT !.conversationId = conversationId,
                           !.out = <<IdItem(conversationId)>>,
                           !.pc = "intent"]
  /\ UNCHANGED memVars

\* the conversation id is fixed and the configuration is checked
StreamStart ==
  /\ req.fn = "chatStream"
  /\ req.pc = "start"
  /\ LET conversationId == ConversationIdOf(req.initialConversationId)
     IN req' = IF ~req.apiKey
               THEN [req EXCEPT !.conversationId = conversationId,
                                !.out = <<Chunk(ApiKeyErrorText)>>,
                                !.path = "config_error",
                                !.pc = "done"]
               ELSE [req EXCEPT !.conversationId = conversationId,
                                !.out = <<IdItem(conversationId)>>,
                                !.pc = "intent"]
  /\ UNCHANGED memVars

\* the input of the classification model (the five lines of the prompt)
buildIntentInput(message, intentHistory, lastIntent, lastToolUsed, recentEntities) ==
  LET last8 == JsSlice(recentEntities, 0 - 8)
      Last(role) ==
        LET ms == SelectSeq(intentHistory, LAMBDA m : m.role = role)
        IN IF ms = <<>> THEN <<"<none>">>
           ELSE normalizeCompact(toTextContent(ms[Len(ms)].content))
  IN [last_intent |-> lastIntent,
      last_tool |-> IF lastToolUsed.some /\ Trim(lastToolUsed.val) # <<>>
                    THEN Trim(lastToolUsed.val) ELSE <<"<none>">>,
      recent_entities |-> [i \in 1..Len(last8) |-> normalizeCompact(last8[i])],
      last_user |-> Last("human"),
      last_assistant |-> Last("ai"),
      current_user |-> normalizeCompact(message)]

\* intentInput of request r on the stored conversation
IntentInputOf(r) ==
  LET intentHistory == getHistory(cache, r.conversationId, r.userId,
                                  INTENT_CONTEXT_MESSAGE_LIMIT)
      intentState == getIntentState(cache, r.conversationId, r.userId)
  IN buildIntentInput(r.message,
                      IF intentHistory.threw THEN <<>> ELSE intentHistory.value,
                      intentState.lastIntent, intentState.lastToolUsed,
                      intentState.recentEntities)

\* the answers llmForIntent can give to a prompt: any answer; for a request
\* that carries a deterministic classifier, the classifier's answer to that
\* prompt, as long as the input is the one it was asked before
AnswersOf(r, prompt, intentInput) ==
  IF ~r.classifier.some THEN ClassifierAnswers
  ELSE IF r.earlier.some /\ r.earlier.val.intentInput # intentInput
       THEN ClassifierAnswers
  ELSE {r.classifier.val[prompt]}

\* the intent history and state are loaded, the classifier is called, the
\* heuristics are evaluated
StreamIntentCheck ==
  /\ req.fn = "chatStream"
  /\ req.pc = "intent"
  /\ \E intentText \in AnswersOf(req, "first", IntentInputOf(req)) :
       LET intentHistory == getHistory(cache, req.conversationId, req.userId,
                                       INTENT_CONTEXT_MESSAGE_LIMIT)
           intentState == getIntentState(cache, req.conversationId, req.userId)
           intentClassification == parseIntentClassification(intentText)
           keywordHit == hasDomainKeyword(req.message)
           entityHit == hasMarketEntityHint(req.message, intentState.recentEntities)
           followUp == shortFollowUpOverride(req.message, intentState)
       IN req' = IF intentHistory.threw
                 THEN [req EXCEPT !.path = "threw", !.pc = "done"]
                 ELSE [req EXCEPT
                         !.intentState = intentState,
                         !.intentInput = Some(IntentInputOf(req)),
                         !.intentClassification = intentClassification,
                         !.keywordHit = keywordHit,
                         !.entityHit = entityHit,
                         !.shortFollowUpOverride = followUp,
                         !.classifierCalls = @ + 1,
                         !.pc = IF secondChance(keywordHit, entityHit, followUp,
                                                intentClassification)
                                THEN "secondChance" ELSE "gate"]
  /\ UNCHANGED memVars

\* the second, lenient classifier call
StreamSecondChance ==
  /\ req.fn = "chatStream"
  /\ req.pc = "secondChance"
  /\ \E intentText \in AnswersOf(req, "second", req.intentInput.val) :
       req' = [req EXCEPT
                 !.secondChanceUsed = TRUE,
                 !.intentClassification = parseIntentClassification(intentText),
                 !.classifierCalls = @ + 1,
                 !.pc = "gate"]
  /\ UNCHANGED memVars

\* the gate decision
StreamGate ==
  /\ req.fn = "chatStream"
  /\ req.pc = "gate"
  /\ LET c == req.intentClassification
         isOffTopic ==
           shouldTreatAsOffTopic(req.keywordHit,
                                 req.entityHit \/ req.shortFollowUpOverride,
                                 c.label, c.confidence)
         ask == shouldAskClarification(isOffTopic, req.keywordHit, req.entityHit,
                                       req.shortFollowUpOverride, c)
     IN req' = [req EXCEPT
                  !.decision = IF ask THEN "clarify"
                               ELSE IF isOffTopic THEN "off_topic"
                               ELSE "on_topic",
                  !.pc = "decided"]
  /\ UNCHANGED memVars

\* if (shouldAskClarification): the question is the reply
StreamClarify ==
  /\ req.fn = "chatStream"
  /\ req.pc = "decided"
  /\ req.decision = "clarify"
  /\ cache' = updateIntentState(cache, req.conversationId, req.userId,
                                ClarifyPatch, None, now)
  /\ req' = [req EXCEPT
               !.intentUpdates = Append(@, ClarifyPatch),
               !.out = Append(@, Chunk(buildClarificationQuestion(
                          req.intentState.lastToolUsed,
                          req.intentState.recentEntities))),
               !.path = "clarification",
               !.pc = "done"]
  /\ UNCHANGED <<cfgMaxStored, cfgTtl, now, ret, log, count>>

\* if (isOffTopic): the fixed refusal is the reply
StreamRefuse ==
  /\ req.fn = "chatStream"
  /\ req.pc = "decided"
  /\ req.decision = "off_topic"
  /\ cache' = updateIntentState(cache, req.conversationId, req.userId,
                                OffTopicPatch, None, now)
  /\ req' = [req EXCEPT
               !.intentUpdates = Append(@, OffTopicPatch),
               !.out = Append(@, Chunk(OFF_TOPIC_MESSAGE)),
               !.path = "off_topic",
               !.pc = "done"]
  /\ UNCHANGED <<cfgMaxStored, cfgTtl, now, ret, log, count>>

\* on topic: the history is loaded and the loop is entered.  The
\* classification is not read from here on and leaves the state.
StreamPrepare ==
  /\ req.fn = "chatStream"
  /\ req.pc = "decided"
  /\ req.decision = "on_topic"
  /\ LET history == getHistory(cache, req.conversationId, req.userId,
                               DEFAULT_MAX_HISTORY_MESSAGES)
     IN req' = IF history.threw
               THEN [req EXCEPT !.path = "threw", !.pc = "done"]
               ELSE [req EXCEPT
                       !.intentClassification = Classification("uncertain", 50),
                       !.intentInput = None,
                       !.secondChanceUsed = FALSE,
                       !.history = history.value,
                       !.round = 0,
                       !.pc = "model"]
  /\ UNCHANGED memVars

LoopGuardAlways(round) == TRUE

LoopGuardOneMore(round) == round <= maxToolRounds

\* round < maxToolRounds, the condition of the loops of chat and chatStream
LoopGuard(round) == round < maxToolRounds

\* the final update of the intent state after reply final
OnTopicPatch(r, final) ==
  FullPatch("on_topic",
            LastToolUsed(r.invokedToolNames, r.intentState),
            extractEntitiesFromText(
              JoinLines(<<r.message, final>> \o r.toolOutputSnippets)),
            FALSE)

\* one pass of the loop up to the tool calls: the model is streamed, its text
\* is delivered, and a response without tool calls ends the request
StreamModel ==
  /\ req.fn = "chatStream"
  /\ req.pc = "model"
  /\ LoopGuard(req.round)
  /\ \E response \in ModelResponses :
       LET delivered == IF response.text # <<>>
                        THEN Append(req.out, Chunk(response.text)) ELSE req.out
           \* the text chunks of this pass of the loop
           streamed == IF response.text # <<>> THEN <<response.text>> ELSE <<>>
           final == FinalText(response.text)
           patch == OnTopicPatch(req, final)
       IN IF response.tool_calls = <<>>
          THEN /\ cache' = updateIntentState(
                             appendTurn(cache, req.conversationId, req.userId,
                                        req.message, final, None),
                             req.conversationId, req.userId, patch, None, now)
               /\ req' = [req EXCEPT
                            !.accumulated = response,
                            !.modelCalls = @ + 1,
                            !.out = delivered,
                            !.roundChunks = streamed,
                            !.persisted = Append(@, [human |-> req.message,
                                                     assistant |-> final]),
                            !.intentUpdates = Append(@, patch),
                            !.path = "final",
                            !.pc = "done"]
          ELSE /\ cache' = cache
               /\ req' = [req EXCEPT
                            !.accumulated = response,
                            !.modelCalls = @ + 1,
                            !.out = delivered,
                            !.roundChunks = streamed,
                            !.pc = "tools"]
  /\ UNCHANGED <<cfgMaxStored, cfgTtl, now, ret, log, count>>

\* the rest of the pass: the tool calls of the response are run in order
StreamTools ==
  /\ req.fn = "chatStream"
  /\ req.pc = "tools"
  /\ \E outputs \in OutputsFor(req.accumulated.tool_calls) :
       LET run == RunToolCalls(req.accumulated.tool_calls, outputs, 1,
                               req.message, req.history, TRUE,
                               ToolRun(req.invokedToolNames,
                                       req.toolOutputSnippets))
           invokedNow == Len(run.invokedToolNames) - Len(req.invokedToolNames)
           patch == FullPatch("uncertain", Some(<<"market_historical">>),
                              extractEntitiesFromText(
                                JoinLines(<<req.message, run.clarification.val,
                                            run.content>>)),
                              TRUE)
       IN IF run.clarification.some
          THEN /\ cache' = updateIntentState(
                             appendTurn(cache, req.conversationId, req.userId,
                                        req.message, run.clarification.val, None),
                             req.conversationId, req.userId, patch, None, now)
               /\ req' = [req EXCEPT
                            !.invokedToolNames = run.invokedToolNames,
                            !.content = run.content,
                            !.toolRounds = @ + 1,
                            !.toolCalls = @ + invokedNow,
                            !.out = Append(@, Chunk(run.clarification.val)),
                            !.roundChunks = Append(@, run.clarification.val),
                            !.persisted = Append(@, [human |-> req.message,
                                             assistant |-> run.clarification.val]),
                            !.intentUpdates = Append(@, patch),
                            !.path = "market_clarification",
                            !.pc = "done"]
          ELSE /\ cache' = cache
               /\ req' = [req EXCEPT
                            !.invokedToolNames = run.invokedToolNames,
                            !.toolOutputSnippets = run.toolOutputSnippets,
                            !.content = run.content,
                            !.toolRounds = @ + 1,
                            !.toolCalls = @ + invokedNow,
                            !.round = @ + 1,
                            !.pc = IF LoopGuard(req.round + 1)
                                   THEN "model" ELSE "exhausted"]
  /\ UNCHANGED <<cfgMaxStored, cfgTtl, now, ret, log, count>>

\* the loop ran out of rounds: the text of the last response is the reply
StreamExhausted ==
  /\ req.fn = "chatStream"
  /\ req.pc = "exhausted"
  /\ LET final == FinalText(req.accumulated.text)
         patch == OnTopicPatch(req, final)
     IN /\ cache' = updateIntentState(
                      appendTurn(cache, req.conversationId, req.userId,
                                 req.message, final, None),
                      req.conversationId, req.userId, patch, None, now)
        /\ req' = [req EXCEPT
                     !.out = IF final # <<>> THEN Append(@, Chunk(final)) ELSE @,
                     !.roundChunks = IF final # <<>> THEN Append(@, final) ELSE @,
                     !.persisted = Append(@, [human |-> req.message,
                                              assistant |-> final]),
                     !.intentUpdates = Append(@, patch),
                     !.path = "fallback",
                     !.pc = "done"]
  /\ UNCHANGED <<cfgMaxStored, cfgTtl, now, ret, log, count>>

(***************************************************************************)
(* chat (gauntlet-agent.service.ts), step by step                          *)
(***************************************************************************)
\* the answers of the Yes/No intent check that are tried
ChatIntentAnswers ==
  {<<"Yes">>, <<"No">>, <<" ", "N", " ">>, <<"I", " ", "do", " ", "not", " ",
   "know">>, <<"Yes", ",", " ", "no", " ", "doubt">>}

\* isOffTopic of chat
ChatIsOffTopic(intentText) ==
  LET intentLower == toLowerCase(Trim(intentText))
  IN \/ Includes(intentLower, <<"no">>) /\ ~Includes(intentLower, <<"yes">>)
     \/ intentLower = <<"n">>

ChatStart ==
  /\ req.fn = "chat"
  /\ req.pc = "start"
  /\ LET conversationId == ConversationIdOf(req.initialConversationId)
     IN req' = IF ~req.apiKey
               THEN [req EXCEPT !.conversationId = conversationId,
                                !.path = "config_error",
                                !.pc = "done"]
               ELSE [req EXCEPT !.conversationId = conversationId,
                                !.pc = "intent"]
  /\ UNCHANGED memVars

ChatIntentCheck ==
  /\ req.fn = "chat"
  /\ req.pc = "intent"
  /\ \E intentText \in ChatIntentAnswers :
       LET intentHistory == getHistory(cache, req.conversationId, req.userId,
                                       INTENT_CONTEXT_MESSAGE_LIMIT)
           history == getHistory(cache, req.conversationId, req.userId,
                                 DEFAULT_MAX_HISTORY_MESSAGES)
       IN req' = IF intentHistory.threw
                 THEN [req EXCEPT !.path = "threw", !.pc = "done"]
                 ELSE IF ChatIsOffTopic(intentText)
                 THEN [req EXCEPT !.classifierCalls = @ + 1,
                                  !.decision = "off_topic",
                                  !.result = Some(OFF_TOPIC_MESSAGE),
                                  !.path = "off_topic",
                                  !.pc = "done"]
                 ELSE [req EXCEPT !.classifierCalls = @ + 1,
                                  !.decision = "on_topic",
                                  !.history = history.value,
                                  !.pc = "model"]
  /\ UNCHANGED memVars

\* the first call of the tool-augmented model
ChatInvoke ==
  /\ req.fn = "chat"
  /\ req.pc = "model"
  /\ \E response \in ModelResponses :
       req' = [req EXCEPT !.accumulated = response,
                          !.modelCalls = @ + 1,
                          !.round = 0,
                          !.pc = "loop"]
  /\ UNCHANGED memVars

\* one pass of the while loop: the tool calls are run, the model is called
ChatToolRound ==
  /\ req.fn = "chat"
  /\ req.pc = "loop"
  /\ req.accumulated.tool_calls # <<>>
  /\ LoopGuard(req.round)
  /\ \E outputs \in OutputsFor(req.accumulated.tool_calls),
        response \in ModelResponses :
       LET run == RunToolCalls(req.accumulated.tool_calls, outputs, 1,
                               req.message, req.history, FALSE,
                               ToolRun(<<>>, <<>>))
       IN req' = [req EXCEPT
                    !.toolRounds = @ + 1,
                    !.toolCalls = @ + Len(run.toolResults),
                    !.accumulated = response,
                    !.modelCalls = @ + 1,
                    !.round = @ + 1]
  /\ UNCHANGED memVars

\* after the loop: the text of the last response is stored and returned
ChatFinish ==
  /\ req.fn = "chat"
  /\ req.pc = "loop"
  /\ ~(req.accumulated.tool_calls # <<>> /\ LoopGuard(req.round))
  /\ LET finalText == FinalText(req.accumulated.text)
     IN /\ cache' = appendTurn(cache, req.conversationId, req.userId,
                               req.message, finalText, None)
        /\ req' = [req EXCEPT
                     !.result = Some(finalText),
                     !.persisted = Append(@, [human |-> req.message,
                                              assistant |-> finalText]),
                     !.path = IF req.accumulated.tool_calls # <<>>
                              THEN "fallback" ELSE "final",
                     !.pc = "done"]
  /\ UNCHANGED <<cfgMaxStored, cfgTtl, now, ret, log, count>>

(***************************************************************************)
(* SpecChat: one request, chat or chatStream, from its arrival to its end, *)
(* on a conversation in a state earlier requests can have left             *)
(***************************************************************************)
MsgKeyword == <<"How", " ", "is", " ", "my", " ", "portfolio">>

ChatMessages ==
  {MsgKeyword,
   <<"what", " ", "is", " ", "the", " ", "weather">>,
   <<"tell", " ", "me", " ", "about", " ", "AAPL">>,
   <<"and", " ", "the", " ", "year", " ", "before">>,
   <<"please", " ", "write", " ", "a", " ", "poem", " ", "about", " ", "autumn",
     " ", "leaves", " ", "for", " ", "me">>,
   <<"show", " ", "more">>}

\* the cache after an answered request "How is my portfolio" on c1
AnsweredCache ==
  updateIntentState(
    appendTurn(<<>>, "c1", "u1", MsgKeyword, FinalText(AnswerText), None),
    "c1", "u1",
    FullPatch("on_topic", Some(<<"portfolio_details">>),
              extractEntitiesFromText(
                JoinLines(<<MsgKeyword, FinalText(AnswerText), DetailsOutput>>)),
              FALSE),
    None, 0)

\* the cache after a request on c1 that ended in a clarification question
ClarifiedCache == updateIntentState(<<>>, "c1", "u1", ClarifyPatch, None, 0)

InitChat ==
  /\ cfgMaxStored = None
  /\ cfgTtl = None
  /\ now = 1
  /\ ret = [op |-> "init"]
  /\ log = <<>>
  /\ count = [append |-> 0, update |-> 0]
  /\ cache \in {<<>>, AnsweredCache, ClarifiedCache}
  /\ \E fn \in {"chat", "chatStream"}, id \in {None, Some(" c1 ")},
        message \in ChatMessages, apiKey \in BOOLEAN :
       /\ id = None => cache = <<>>
       /\ req = NewRequest(fn, id, message, apiKey)

NextChat ==
  \/ StreamStart
  \/ StreamIntentCheck
  \/ StreamSecondChance
  \/ StreamGate
  \/ StreamClarify
  \/ StreamRefuse
  \/ StreamPrepare
  \/ StreamModel
  \/ StreamTools
  \/ StreamExhausted
  \/ ChatStart
  \/ ChatIntentCheck
  \/ ChatInvoke
  \/ ChatToolRound
  \/ ChatFinish

SpecChat == InitChat /\ [][NextChat]_vars

(***************************************************************************)
(* SpecGate: the gate of chatStream run twice on the same message and the  *)
(* same stored conversation, with a deterministic classifier (temperature  *)
(* 0); time passes and a request on another conversation is served between *)
(* the two runs                                                            *)
(***************************************************************************)
\* the answers of the deterministic classifier that are tried
GateAnswers ==
  {NotJson,
   RawClassification(Some("on_topic"), Some(96)),
   RawClassification(Some("off_topic"), Some(89)),
   RawClassification(Some("off_topic"), Some(93)),
   RawClassification(Some("off_topic"), Some(97)),
   RawClassification(Some("uncertain"), Some(97))}

InitGate ==
  /\ cfgMaxStored = None
  /\ cfgTtl = None
  /\ now = 1
  /\ ret = [op |-> "init"]
  /\ log = <<>>
  /\ count = [append |-> 0, update |-> 0]
  /\ cache \in {<<>>, AnsweredCache, ClarifiedCache}
  /\ \E message \in ChatMessages, first \in GateAnswers, second \in GateAnswers :
       req = [NewRequest("chatStream", Some(" c1 "), message, TRUE) EXCEPT
                !.classifier = Some([first |-> first, second |-> second])]

\* the gate has decided; a request on conversation c2 is refused, time
\* passes, and the same message arrives again for the same conversation
GateAgain ==
  /\ req.fn = "chatStream"
  /\ req.pc = "decided"
  /\ req.earlier = None
  /\ now' = now + 1
  /\ cache' = updateIntentState(cache, "c2", req.userId, OffTopicPatch, None, now)
  /\ req' = [NewRequest("chatStream", req.initialConversationId, req.message,
                        req.apiKey) EXCEPT
               !.classifier = req.classifier,
               !.earlier = Some([decision |-> req.decision,
                                 classifierCalls |-> req.classifierCalls,
                                 intentInput |-> req.intentInput.val])]
  /\ UNCHANGED <<cfgMaxStored, cfgTtl, ret, log, count>>

NextGate ==
  \/ StreamStart
  \/ StreamIntentCheck
  \/ StreamSecondChance
  \/ StreamGate
  \/ GateAgain

SpecGate == InitGate /\ [][NextGate]_vars

\* C14: with a deterministic classifier, the gate run again on the same
\* message, the same history and the same intent state builds the same
\* classifier input, takes the same decision and makes the same number of
\* classifier calls, whatever the time and whatever was served in between
\* on other conversations.
C14_GateIsDeterministic ==
  (req.earlier.some /\ req.pc = "decided") =>
    /\ req.intentInput = Some(req.earlier.val.intentInput)
    /\ req.decision = req.earlier.val.decision
    /\ req.classifierCalls = req.earlier.val.classifierCalls

\* both runs called the classifier twice and both asked for a clarification
C14_Witness_SecondRunDecided ==
  /\ req.earlier.some
  /\ req.pc = "decided"
  /\ now = 2
  /\ req.classifierCalls = 2
  /\ req.decision = "clarify"

(***************************************************************************)
(* Claims about the orchestration (checked under SpecChat)                 *)
(***************************************************************************)
\* C1: whatever tool calls the model requests, one request runs at most
\* maxToolRounds (5) rounds of tools and calls the tool-augmented model at
\* most 5 times in chatStream and 6 times in chat; once the rounds are used
\* up no model or tool call follows, and the text of the last response (or
\* the fallback sentence) is stored as the final answer.
C1_RoundBudget ==
  /\ req.toolRounds <= maxToolRounds
  /\ req.fn = "chatStream" => req.modelCalls <= maxToolRounds
  /\ req.fn = "chat" => req.modelCalls <= maxToolRounds + 1
  /\ req.toolRounds = maxToolRounds =>
       \/ req.pc \in {"exhausted", "done"}
       \/ req.fn = "chat" /\ req.pc = "loop" /\ ~LoopGuard(req.round)
  /\ req.path = "fallback" =>
       /\ req.toolRounds = maxToolRounds
       /\ req.accumulated.tool_calls # <<>>
       /\ req.persisted = <<[human |-> req.message,
                             assistant |-> FinalText(req.accumulated.text)]>>

\* a chatStream request whose model asked for tools in all five rounds
C1_Witness_BudgetExhausted ==
  /\ req.fn = "chatStream"
  /\ req.path = "fallback"
  /\ req.modelCalls = maxToolRounds
  /\ req.toolRounds = maxToolRounds

\* C2: when the message holds a domain keyword, the gate of chatStream
\* decides on-topic for every answer of the classifier, never off-topic and
\* never clarification; so it does for every other heuristic hit.
C2_HeuristicHitIsOnTopic ==
  (req.fn = "chatStream" /\ req.decision # "none") =>
    /\ hasDomainKeyword(req.message) => req.decision = "on_topic"
    /\ (req.keywordHit \/ req.entityHit \/ req.shortFollowUpOverride) =>
         req.decision = "on_topic"

\* a keyword message the classifier called off-topic with full confidence
C2_Witness_KeywordAgainstClassifier ==
  /\ req.fn = "chatStream"
  /\ req.pc = "decided"
  /\ hasDomainKeyword(req.message)
  /\ req.intentClassification = Classification("off_topic", 100)
  /\ req.decision = "on_topic"

\* the reply the caller received: what chat returned, the last chunk of
\* chatStream
ReplyReceived(r) ==
  IF r.fn = "chat" THEN r.result
  ELSE LET chunks == SelectSeq(r.out, LAMBDA item : item.kind = "chunk")
       IN IF chunks = <<>> THEN None ELSE Some(chunks[Len(chunks)].text)

TerminalPaths ==
  {"off_topic", "clarification", "final", "fallback", "market_clarification"}

\* C3: a request that ended on any terminal path called appendTurn exactly
\* once, with its human message and the reply the caller received, and the
\* stored history ends with that pair.
C3_EveryPathPersistsOneTurn ==
  (req.pc = "done" /\ req.path \in TerminalPaths) =>
    /\ Len(req.persisted) = 1
    /\ req.persisted[1].human = req.message
    /\ ReplyReceived(req).some
    /\ req.persisted[1].assistant = Trim(ReplyReceived(req).val)
    /\ IsSuffix(<<StoredMessage("human", req.message),
                  StoredMessage("ai", req.persisted[1].assistant)>>,
                StoredAt(cache, getKey(req.userId, req.conversationId)))

\* a chatStream request refused as off-topic
C3_Witness_RefusedRequest ==
  /\ req.fn = "chatStream"
  /\ req.pc = "done"
  /\ req.path = "off_topic"
  /\ req.persisted = <<>>

(***************************************************************************)
(* Claims about the gate of chatStream (checked under SpecChat)            *)
(***************************************************************************)
\* no deterministic heuristic fires for the message of r
NoHeuristicHit(r) ==
  /\ ~hasDomainKeyword(r.message)
  /\ ~hasMarketEntityHint(r.message, r.intentState.recentEntities)
  /\ ~shortFollowUpOverride(r.message, r.intentState)

\* C11: with no heuristic hit the gate decides off-topic exactly when the
\* final classification is off_topic with confidence of 0.97 or more, asks
\* for a clarification exactly when it is uncertain or off_topic with a
\* confidence in [0.93, 0.97), and decides on-topic in every other case;
\* every gate run takes exactly one of the three decisions.
C11_GateDecisionTable ==
  (req.fn = "chatStream" /\ req.pc = "decided") =>
    /\ req.decision \in {"off_topic", "clarify", "on_topic"}
    /\ NoHeuristicHit(req) =>
         LET c == req.intentClassification
             hardBlock == c.label = "off_topic" /\ c.confidence >= 97
             doubt == \/ c.label = "uncertain"
                      \/ /\ c.label = "off_topic"
                         /\ c.confidence >= 93
                         /\ c.confidence < 97
         IN /\ req.decision = "off_topic" <=> hardBlock
            /\ req.decision = "clarify" <=> doubt
            /\ req.decision = "on_topic" <=> (~hardBlock /\ ~doubt)

\* no heuristic hit, the final classification is off_topic with 0.96: the
\* gate asks
C11_Witness_OffTopicBelowHardBlock ==
  /\ req.fn = "chatStream"
  /\ req.pc = "decided"
  /\ NoHeuristicHit(req)
  /\ req.intentClassification = Classification("off_topic", 96)
  /\ req.decision = "clarify"

\* C12: a request for which a heuristic (domain keyword, market-entity hint,
\* short follow-up) fires reaches its decision with zero calls of the
\* classification model.
C12_HeuristicHitSkipsClassifier ==
  (req.fn = "chatStream" /\ req.decision # "none" /\ ~NoHeuristicHit(req)) =>
    req.classifierCalls = 0

\* a keyword message decided on-topic after one classifier call
C12_Witness_ClassifierCalledDespiteKeyword ==
  /\ req.fn = "chatStream"
  /\ req.pc = "decided"
  /\ hasDomainKeyword(req.message)
  /\ req.decision = "on_topic"
  /\ req.classifierCalls = 1

\* C13: the second classification pass runs exactly when no heuristic fired
\* and the first classification is uncertain, or off_topic with a confidence
\* in [0.90, 0.97); a request makes at most two classification calls; a short
\* follow-up after an on-topic turn is decided on-topic with one call.
C13_SecondPassExactlyInBand ==
  req.fn = "chatStream" =>
    LET c == req.intentClassification
        inBand == \/ c.label = "uncertain"
                  \/ /\ c.label = "off_topic"
                     /\ c.confidence >= 90
                     /\ c.confidence < 97
    IN /\ req.classifierCalls <= 2
       /\ req.pc = "secondChance" =>
            (NoHeuristicHit(req) /\ inBand /\ req.classifierCalls = 1)
       /\ (req.pc = "gate" /\ ~req.secondChanceUsed) =>
            (~(NoHeuristicHit(req) /\ inBand) /\ req.classifierCalls = 1)
       /\ (req.pc = "gate" /\ req.secondChanceUsed) => req.classifierCalls = 2
       /\ (req.decision # "none"
           /\ shortFollowUpOverride(req.message, req.intentState)) =>
            (req.decision = "on_topic" /\ req.classifierCalls = 1)

\* the first classification was off_topic with 0.90 and the second pass ran
C13_Witness_SecondPassRan ==
  /\ req.fn = "chatStream"
  /\ req.pc = "gate"
  /\ req.secondChanceUsed
  /\ req.classifierCalls = 2
  /\ NoHeuristicHit(req)

(***************************************************************************)
(* Claims about the ends of a chatStream request (checked under SpecChat)  *)
(***************************************************************************)
\* the intent state stored for the conversation of r
StoredIntentState(r) == getIntentState(cache, r.conversationId, r.userId)

\* C15: a chatStream request the gate decided off-topic delivers the fixed
\* refusal message, leaves lastIntent = off_topic and pendingClarification =
\* false in the stored intent state, invokes no tool and never calls the
\* tool-augmented model.
C15_OffTopicRefusal ==
  (req.fn = "chatStream" /\ req.decision = "off_topic" /\ req.pc = "done") =>
    /\ req.path = "off_topic"
    /\ req.out = <<IdItem(req.conversationId), Chunk(OFF_TOPIC_MESSAGE)>>
    /\ StoredIntentState(req).lastIntent = "off_topic"
    /\ StoredIntentState(req).pendingClarification = FALSE
    /\ req.modelCalls = 0
    /\ req.toolCalls = 0
    /\ req.toolRounds = 0
    /\ req.invokedToolNames = <<>>

\* a refusal on a conversation whose last turn was on-topic
C15_Witness_RefusedAfterOnTopicTurn ==
  /\ req.fn = "chatStream"
  /\ req.pc = "done"
  /\ req.path = "off_topic"
  /\ req.intentState.lastIntent = "on_topic"
  /\ StoredIntentState(req).lastIntent = "off_topic"

\* C16: a chatStream request the gate decided to clarify leaves lastIntent =
\* uncertain and pendingClarification = true in the stored intent state and
\* delivers the templated question, which is a function of the stored
\* lastToolUsed and the last two stored entities alone (the generic question
\* when no entity is stored); no tool is invoked and the tool-augmented model
\* is never called.
C16_GateClarification ==
  (req.fn = "chatStream" /\ req.decision = "clarify" /\ req.pc = "done") =>
    LET lastTwo == JsSlice(req.intentState.recentEntities, 0 - 2)
        question == buildClarificationQuestion(req.intentState.lastToolUsed,
                                               lastTwo)
    IN /\ req.path = "clarification"
       /\ StoredIntentState(req).lastIntent = "uncertain"
       /\ StoredIntentState(req).pendingClarification = TRUE
       /\ req.out = <<IdItem(req.conversationId), Chunk(question)>>
       /\ Len(lastTwo) <= 2
       /\ req.intentState.recentEntities = <<>> =>
            StartsWith(question, <<"Can", " ", "you", " ", "clarify">>)
       /\ req.intentState.recentEntities # <<>> =>
            StartsWith(question,
                       <<"Do", " ", "you", " ", "mean", " ">>
                       \o JoinWith(lastTwo, <<" ", "/", " ">>)
                       \o <<" ", "in", " ", "your", " ">>)
       /\ req.modelCalls = 0
       /\ req.toolCalls = 0
       /\ req.invokedToolNames = <<>>

\* a clarification on a conversation with more than two stored entities
C16_Witness_QuestionNamesLastTwo ==
  /\ req.fn = "chatStream"
  /\ req.pc = "done"
  /\ req.path = "clarification"
  /\ Len(req.intentState.recentEntities) > 2
  /\ StoredIntentState(req).pendingClarification = TRUE

\* a tool output with one of the argument-error patterns of market_historical
IsArgumentError(output) ==
  /\ StartsWith(output, <<"Error", ":">>)
  /\ \/ Includes(output, <<":", " ", "Required">>)
     \/ Includes(output, <<"Invalid", " ", "date", " ", "format">>)
     \/ Includes(output, <<"from", " ", "date", " ", "must", " ", "be", " ",
                           "before", " ", "or", " ", "equal", " ", "to", " ",
                           "to", " ", "date">>)
     \/ Includes(output, <<"Invalid", " ", "dataSource">>)

\* the arguments an output reports as required, in the order symbol,
\* dataSource, from, to
RequiredIn(output) ==
  SelectSeq(<<"symbol", "dataSource", "from", "to">>,
            LAMBDA f : Includes(output, <<f, ":", " ", "Required">>))

\* C17: a market_historical output with an argument-error pattern ends the
\* request at that call: the question about the arguments (which lists the
\* arguments reported as required and is not the error text) is stored as the
\* assistant turn and delivered, pendingClarification = true is stored, the
\* later calls of the round are not run and no model call follows; a round
\* that went on saw no such output.
C17_MarketClarificationShortCircuit ==
  req.fn = "chatStream" =>
    /\ \A i \in 1..Len(req.toolOutputSnippets) :
         ~IsArgumentError(req.toolOutputSnippets[i])
    /\ (req.pc # "done" /\ req.round > 0) => ~IsArgumentError(req.content)
    /\ req.path = "market_clarification" =>
         LET reply == req.persisted[1].assistant
             names == RequiredIn(req.content)
         IN /\ req.pc = "done"
            /\ IsArgumentError(req.content)
            /\ Len(req.persisted) = 1
            /\ req.persisted[1].human = req.message
            /\ IsSuffix(<<StoredMessage("human", req.message),
                          StoredMessage("ai", reply)>>,
                        StoredAt(cache, getKey(req.userId, req.conversationId)))
            /\ ReplyReceived(req) = Some(reply)
            /\ reply # req.content
            /\ ~Includes(reply, <<"Error">>)
            /\ names # <<>> =>
                 Includes(reply,
                          <<":", " ">>
                          \o JoinWith([i \in 1..Len(names) |-> <<names[i]>>],
                                      <<",", " ">>)
                          \o <<".", " ", "Please">>)
            /\ StoredIntentState(req).pendingClarification = TRUE
            /\ StoredIntentState(req).lastIntent = "uncertain"
            /\ req.invokedToolNames[Len(req.invokedToolNames)] = "market_historical"
            /\ req.modelCalls = req.toolRounds
            /\ req.toolOutputSnippets = <<>> =>
                 req.toolCalls < Len(req.accumulated.tool_calls)

\* the first call of the first round reports missing arguments; the second
\* call of the round is not run
C17_Witness_MissingArguments ==
  /\ req.fn = "chatStream"
  /\ req.path = "market_clarification"
  /\ RequiredIn(req.content) = <<"symbol", "from", "to">>
  /\ req.modelCalls = 1
  /\ req.toolCalls = 1
  /\ Len(req.accumulated.tool_calls) = 2

\* C18: when the rounds are used up while the last response still asks for
\* tools, the request ends as any other: the trimmed text of the last
\* response, or 'I could not generate a response.' when that text is empty,
\* is stored as the assistant turn after the human message and delivered, and
\* the request is done.
C18_ExhaustionIsBestEffortAnswer ==
  (req.fn = "chatStream" /\ req.path = "fallback") =>
    LET text == Trim(req.accumulated.text)
        final == IF text # <<>> THEN text ELSE NoResponseText
    IN /\ req.pc = "done"
       /\ req.accumulated.tool_calls # <<>>
       /\ req.persisted = <<[human |-> req.message, assistant |-> final]>>
       /\ IsSuffix(<<StoredMessage("human", req.message),
                     StoredMessage("ai", final)>>,
                   StoredAt(cache, getKey(req.userId, req.conversationId)))
       /\ ReplyReceived(req) = Some(final)
       /\ ~StartsWith(final, <<"Error">>)

\* the rounds are used up and the last response carried no text
C18_Witness_ExhaustedWithoutText ==
  /\ req.fn = "chatStream"
  /\ req.path = "fallback"
  /\ req.accumulated.text = <<>>
  /\ req.persisted = <<[human |-> req.message, assistant |-> NoResponseText]>>

\* the tools of the registry among the names the request recorded
ToolsInvoked(r) ==
  SelectSeq(r.invokedToolNames, LAMBDA name : name \in GauntletToolNames)

\* C19: after a final answer the stored intent state has lastIntent =
\* on_topic, pendingClarification = false, and lastToolUsed is the name of the
\* tool invoked last in this request, or the value stored before when the
\* request invoked no tool.
C19_FinalAnswerIntentState ==
  (req.fn = "chatStream" /\ req.path = "final") =>
    /\ StoredIntentState(req).lastIntent = "on_topic"
    /\ StoredIntentState(req).pendingClarification = FALSE
    /\ StoredIntentState(req).lastToolUsed =
         IF ToolsInvoked(req) # <<>>
         THEN Some(<<ToolsInvoked(req)[Len(ToolsInvoked(req))]>>)
         ELSE req.intentState.lastToolUsed

\* a final answer after the model asked for a tool the registry does not have
C19_Witness_UnregisteredToolRecorded ==
  /\ req.fn = "chatStream"
  /\ req.path = "final"
  /\ ToolsInvoked(req) = <<"market_historical">>
  /\ StoredIntentState(req).lastToolUsed = Some(<<"web_search">>)

(***************************************************************************)
(* SpecHydrate: hydrateMarketHistoricalArgs applied to the arguments of    *)
(* one market_historical call                                              *)
(***************************************************************************)
\* the raw arguments tried: values that are not objects, and the objects over
\* five keys, each absent or holding one of the values listed
RawArguments ==
  LET RawSymbols == {JUndef, JStr(<<"MSFT">>), JStr(<<" ">>), JNum(5)}
      RawFroms == {JUndef, JStr(<<"2020-01-01">>), JStr(<<>>), JNum(2020)}
      RawTos == {JUndef, JStr(<<"2020-12-31">>), JNull}
      RawDataSources == {JUndef, JStr(<<"MANUAL">>), JStr(<<" ">>)}
      RawIntervals == {JUndef, JStr(<<"day">>)}
      \* the object with a key for each value that is defined
      RawObject(all) == [k \in {x \in DOMAIN all : all[x] # JUndef} |-> all[k]]
  IN {JNull, JStr(<<"MSFT">>)}
     \cup {JObj(RawObject([symbol |-> s, from |-> f, to |-> t,
                           dataSource |-> d, interval |-> i])) :
             s \in RawSymbols, f \in RawFroms, t \in RawTos,
             d \in RawDataSources, i \in RawIntervals}

HydrateMessages ==
  {<<"price", " ", "of", " ", "AAPL", " ", "on", " ", "Jan", " ", "15">>,
   <<"msft", " ", "price", " ", "in", " ", "2019">>,
   <<"btc", " ", "on", " ", "dec", " ", "5">>,
   <<"from", " ", "Jan", " ", "32">>}

HydrateHistories ==
  {<<>>,
   <<[role |-> "human",
      content |-> JStr(<<"report", " ", "for", " ", "2024", " ", "please">>)],
     [role |-> "ai", content |-> JStr(DetailsOutput)]>>,
   <<[role |-> "human", content |-> JStr(<<"msft">>)],
     [role |-> "ai",
      content |-> JStr(<<"report", " ", "for", " ", "2024", " ", "please">>)]>>}

InitHydrate ==
  /\ cache = <<>>
  /\ cfgMaxStored = None
  /\ cfgTtl = None
  /\ now = 1
  /\ ret = [op |-> "init"]
  /\ log = <<>>
  /\ count = [append |-> 0, update |-> 0]
  /\ \E rawArgs \in RawArguments, currentMessage \in HydrateMessages,
        history \in HydrateHistories :
       req = [pc |-> "call", rawArgs |-> rawArgs,
              currentMessage |-> currentMessage, history |-> history,
              args |-> EmptyObject]

\* const args = this.hydrateMarketHistoricalArgs(parsedArgs, message, history)
HydrateCall ==
  /\ req.pc = "call"
  /\ req' = [req EXCEPT
               !.pc = "returned",
               !.args = hydrateMarketHistoricalArgs(req.rawArgs,
                                                    req.currentMessage,
                                                    req.history)]
  /\ UNCHANGED memVars

NextHydrate == HydrateCall

SpecHydrate == InitHydrate /\ [][NextHydrate]_vars

\* the keys of the raw arguments
RawKeys(rawArgs) == IF rawArgs.t = "object" THEN DOMAIN rawArgs.f ELSE {}

\* C20: every key present in the raw arguments (symbol, dataSource, from, to
\* or any other) has the same value in the hydrated arguments.
C20_HydrationKeepsSuppliedFields ==
  req.pc = "returned" =>
    \A k \in RawKeys(req.rawArgs) :
      k \in DOMAIN req.args /\ req.args[k] = req.rawArgs.f[k]

\* the model sent from as the number 2020 and the message names the year
\* 2019: the hydrated from is the string '2019'
C20_Witness_NumberReplacedByInferredYear ==
  /\ req.pc = "returned"
  /\ "from" \in RawKeys(req.rawArgs)
  /\ req.rawArgs.f["from"] = JNum(2020)
  /\ req.args["from"] = JStr(<<"2019">>)

\* a history with a turn of the user that mentions the year 2024
UserMentioned2024(history) ==
  \E i \in 1..Len(history) :
    /\ history[i].role = "human"
    /\ \E k \in 1..Len(toTextContent(history[i].content)) :
         toTextContent(history[i].content)[k] = "2024"

PriceOfAaplOnJan15 ==
  <<"price", " ", "of", " ", "AAPL", " ", "on", " ", "Jan", " ", "15">>

AppendTurnSetOnFreshRead(c, raw, conversationId, userId, humanContent, assistantContent, ttlMs) ==
  appendTurn(c, conversationId, userId, humanContent, assistantContent, ttlMs)

\* appendTurn after its get returned raw: the cache after its set
appendTurnSet(c, raw, conversationId, userId, humanContent, assistantContent, ttlMs) ==
  LET key == getKey(userId, conversationId)
      stored == parseStored(raw)
      pushed == stored \o <<StoredMessage("human", humanContent),
                            StoredMessage("ai", assistantContent)>>
      trimmed == JsSlice(pushed, 0 - maxStoredMessages)
  IN CacheSet(c, key, JsonStringify(JArr(trimmed)), toTtlMs(ttlMs))

\* updateIntentState after its getIntentState returned current: the cache
\* after its set
updateIntentStateSet(c, current, conversationId, userId, patch, ttlMs, time) ==
  CacheSet(c, getIntentStateKey(userId, conversationId),
           IntentStateToJson(NextIntentState(current, patch, time)),
           toTtlMs(ttlMs))

RaceUser == "u1"

\* the two requests: their conversation, turn and final intent patch (with
\* an entity no stored state holds yet)
RaceRequest(i, conversationId) ==
  [conversationId |-> conversationId,
   message |-> IF i = 1 THEN <<"h1">> ELSE <<"h2">>,
   final |-> IF i = 1 THEN <<"a1">> ELSE <<"a2">>,
   patch |-> IF i = 1
             THEN FullPatch("on_topic", Some(<<"portfolio_details">>),
                            <<<<"TSLA">>>>, FALSE)
             ELSE FullPatch("on_topic", Some(<<"market_historical">>),
                            <<<<"NVDA">>>>, FALSE),
   pc |-> "append",
   raw |-> JNull,
   current |-> defaultIntentState,
   \* what the other request had set when this one did its get
   sawTurn |-> FALSE,
   sawIntent |-> FALSE]

Other(i) == 3 - i

InitRace ==
  /\ cfgMaxStored = None
  /\ cfgTtl = None
  /\ now = 1
  /\ ret = [op |-> "init"]
  /\ log = <<>>
  /\ count = [append |-> 0, update |-> 0]
  /\ cache \in {<<>>, AnsweredCache, ClarifiedCache}
  /\ \E conversationId \in {"c1", "c2"} :
       req = [p |-> <<RaceRequest(1, "c1"), RaceRequest(2, conversationId)>>,
              turnSets |-> <<>>,
              intentSets |-> <<>>]

\* const raw = await this.redisCacheService.get(key)
RaceAppendGet(i) ==
  /\ req.p[i].pc = "append"
  /\ req' = [req EXCEPT
               !.p[i].pc = "appendSet",
               !.p[i].raw = CacheGet(cache, getKey(RaceUser,
                                                   req.p[i].conversationId)),
               !.p[i].sawTurn = \E k \in 1..Len(req.turnSets) :
                                  req.turnSets[k] = Other(i)]
  /\ UNCHANGED memVars

\* await this.redisCacheService.set(key, JSON.stringify(trimmed), ttl)
RaceAppendSet(i) ==
  /\ req.p[i].pc = "appendSet"
  /\ cache' = appendTurnSet(cache, req.p[i].raw, req.p[i].conversationId,
                            RaceUser, req.p[i].message, req.p[i].final, None)
  /\ req' = [req EXCEPT !.p[i].pc = "update",
                        !.turnSets = Append(@, i)]
  /\ UNCHANGED <<cfgMaxStored, cfgTtl, now, ret, log, count>>

\* const current = await this.getIntentState(conversationId, userId)
RaceUpdateGet(i) ==
  /\ req.p[i].pc = "update"
  /\ req' = [req EXCEPT
               !.p[i].pc = "updateSet",
               !.p[i].current = getIntentState(cache, req.p[i].conversationId,
                                               RaceUser),
               !.p[i].sawIntent = \E k \in 1..Len(req.intentSets) :
                                    req.intentSets[k] = Other(i)]
  /\ UNCHANGED memVars

\* await this.redisCacheService.set(key, JSON.stringify(next), ...)
RaceUpdateSet(i) ==
  /\ req.p[i].pc = "updateSet"
  /\ cache' = updateIntentStateSet(cache, req.p[i].current,
                                   req.p[i].conversationId, RaceUser,
                                   req.p[i].patch, None, now)
  /\ req' = [req EXCEPT !.p[i].pc = "done",
                        !.intentSets = Append(@, i)]
  /\ UNCHANGED <<cfgMaxStored, cfgTtl, now, ret, log, count>>

NextRace ==
  \E i \in {1, 2} :
    \/ RaceAppendGet(i)
    \/ RaceAppendSet(i)
    \/ RaceUpdateGet(i)
    \/ RaceUpdateSet(i)

SpecRace == InitRace /\ [][NextRace]_vars

\* the stored history of request i's conversation holds the pair it appended
TurnStored(i) ==
  LET stored == StoredAt(cache, getKey(RaceUser, req.p[i].conversationId))
  IN \E k \in 1..(Len(stored) - 1) :
       /\ stored[k] = StoredMessage("human", req.p[i].message)
       /\ stored[k + 1] = StoredMessage("ai", req.p[i].final)

\* the stored intent state of request i's conversation holds its entity
EntityStored(i) ==
  LET stored == getIntentState(cache, req.p[i].conversationId, RaceUser)
  IN \E k \in 1..Len(stored.recentEntities) :
       \E e \in 1..Len(req.p[i].patch.recentEntities) :
         stored.recentEntities[k] = req.p[i].patch.recentEntities[e]

BothDone == req.p[1].pc = "done" /\ req.p[2].pc = "done"

SameConversation == req.p[1].conversationId = req.p[2].conversationId

\* C22: after two concurrent requests on one conversation have completed, the
\* turn pair (the entity update) of a request is missing from the stored
\* state exactly when the other request did its get before and its set after
\* this request's set; such interleavings exist, and requests on different
\* conversations lose nothing.
C22_LostUpdateWhenSetsOverlap ==
  BothDone =>
    \A i \in {1, 2} :
      /\ ~TurnStored(i) <=> /\ SameConversation
                            /\ req.turnSets = <<i, Other(i)>>
                            /\ ~req.p[Other(i)].sawTurn
      /\ ~EntityStored(i) <=> /\ SameConversation
                              /\ req.intentSets = <<i, Other(i)>>
                              /\ ~req.p[Other(i)].sawIntent

\* both requests completed on one conversation and the pair of the first is
\* not in the stored history, the entity of the second not in the intent state
C22_Witness_TurnAndEntityLost ==
  /\ BothDone
  /\ SameConversation
  /\ ~TurnStored(1)
  /\ TurnStored(2)
  /\ ~EntityStored(2)
  /\ EntityStored(1)

(***************************************************************************)
(* SpecCancel: chatStream with a consumer that can cancel.  chatStream is  *)
(* an async generator: it runs only between the consumer's next() and its  *)
(* own next yield, and return() on a generator suspended at a yield ends   *)
(* it there (chatStream has no try / finally).  A pass of the loop is two  *)
(* steps here: up to the yield of the text, and from that yield on.        *)
(***************************************************************************)
AfterReturnResumes(pc) == pc

\* the position of a generator suspended at position pc after return()
AfterReturn(pc) == "cancelled"

\* the answers of the classifier that are tried with cancellation
CancelAnswers ==
  {RawClassification(Some("on_topic"), Some(96)),
   RawClassification(Some("off_topic"), Some(97)),
   RawClassification(Some("uncertain"), Some(97))}

InitCancel ==
  /\ cfgMaxStored = None
  /\ cfgTtl = None
  /\ now = 1
  /\ ret = [op |-> "init"]
  /\ log = <<>>
  /\ count = [append |-> 0, update |-> 0]
  /\ cache \in {<<>>, AnsweredCache}
  /\ \E message \in {MsgKeyword, <<"show", " ", "more">>,
                       <<"what", " ", "is", " ", "the", " ", "weather">>},
        answer \in CancelAnswers, apiKey \in BOOLEAN :
       req = [NewRequest("chatStream", Some(" c1 "), message, apiKey) EXCEPT
                !.classifier = Some([first |-> answer, second |-> answer])]

\* a pass of the loop up to the yield of the text: the model is streamed and
\* its text is delivered
StreamChunks ==
  /\ req.fn = "chatStream"
  /\ req.pc = "model"
  /\ LoopGuard(req.round)
  /\ \E response \in ModelResponses :
       req' = [req EXCEPT
                 !.accumulated = response,
                 !.modelCalls = @ + 1,
                 !.out = IF response.text # <<>>
                         THEN Append(@, Chunk(response.text)) ELSE @,
                 !.roundChunks = IF response.text # <<>>
                                 THEN <<response.text>> ELSE <<>>,
                 !.pc = "streamed"]
  /\ UNCHANGED memVars

\* the pass from the end of the stream on: a response without tool calls is
\* stored as the reply and ends the request
StreamAfterChunks ==
  /\ req.fn = "chatStream"
  /\ req.pc = "streamed"
  /\ LET response == req.accumulated
         final == FinalText(response.text)
         patch == OnTopicPatch(req, final)
     IN IF response.tool_calls = <<>>
        THEN /\ cache' = updateIntentState(
                           appendTurn(cache, req.conversationId, req.userId,
                                      req.message, final, None),
                           req.conversationId, req.userId, patch, None, now)
             /\ req' = [req EXCEPT
                          !.persisted = Append(@, [human |-> req.message,
                                                   assistant |-> final]),
                          !.intentUpdates = Append(@, patch),
                          !.path = "final",
                          !.pc = "done"]
        ELSE /\ cache' = cache
             /\ req' = [req EXCEPT !.pc = "tools"]
  /\ UNCHANGED <<cfgMaxStored, cfgTtl, now, ret, log, count>>

\* the generator is suspended at a yield: after the conversation id, after
\* the text of a response, or after a reply that ends the request
SuspendedAtYield(r) ==
  \/ r.pc = "intent"
  \/ r.pc = "streamed" /\ r.accumulated.text # <<>>
  \/ /\ r.pc = "done"
     /\ r.path \in {"config_error", "clarification", "off_topic",
                    "market_clarification", "fallback"}

\* the consumer stops consuming and calls return() on the generator
StreamCancel ==
  /\ req.fn = "chatStream"
  /\ SuspendedAtYield(req)
  /\ ~req.cancelled.some
  /\ req' = [req EXCEPT
               !.cancelled = Some([at |-> req.pc,
                                   classifierCalls |-> req.classifierCalls,
                                   modelCalls |-> req.modelCalls,
                                   toolCalls |-> req.toolCalls]),
               !.pc = AfterReturn(req.pc)]
  /\ UNCHANGED memVars

NextCancel ==
  \/ StreamStart
  \/ StreamIntentCheck
  \/ StreamSecondChance
  \/ StreamGate
  \/ StreamClarify
  \/ StreamRefuse
  \/ StreamPrepare
  \/ StreamChunks
  \/ StreamAfterChunks
  \/ StreamTools
  \/ StreamExhausted
  \/ StreamCancel

SpecCancel == InitCancel /\ [][NextCancel]_vars

\* C23: when the consumer cancels while the reply is streamed, after text was
\* delivered, the text accumulated up to the cancellation is stored as the
\* assistant turn of the request, after the message of the user.
C23_CancelPersistsAccumulatedText ==
  (req.cancelled.some /\ req.cancelled.val.at = "streamed") =>
    /\ req.persisted = <<[human |-> req.message,
                          assistant |-> Trim(req.accumulated.text)]>>
    /\ LET stored == StoredAt(cache, getKey(req.userId, req.conversationId))
       IN /\ Len(stored) >= 2
          /\ stored[Len(stored) - 1] = StoredMessage("human", req.message)
          /\ stored[Len(stored)] =
               StoredMessage("ai", Trim(req.accumulated.text))

\* cancelled after the text of the first response was delivered: no turn is
\* stored
C23_Witness_CancelledStreamNothingStored ==
  /\ req.cancelled.some
  /\ req.cancelled.val.at = "streamed"
  /\ req.out = <<IdItem(req.conversationId), Chunk(AnswerText)>>
  /\ req.persisted = <<>>
  /\ cache = <<>>

C25_ConfigErrorBeforeAnyCall ==
  (~req.apiKey /\ req.pc # "start") =>
    /\ req.pc = "done"
    /\ req.path = "config_error"
    /\ req.fn = "chatStream" => req.out = <<Chunk(ApiKeyErrorText)>>
    /\ req.fn = "chat" => req.result = None /\ req.out = <<>>
    /\ req.classifierCalls = 0
    /\ req.modelCalls = 0
    /\ req.toolRounds = 0
    /\ req.toolCalls = 0
    /\ req.persisted = <<>>
    /\ req.intentUpdates = <<>>
    /\ cache \in {<<>>, AnsweredCache, ClarifiedCache}

\* a request without an API key on a stored conversation has ended
C25_Witness_ConfigErrorOnStoredConversation ==
  /\ ~req.apiKey
  /\ req.fn = "chatStream"
  /\ req.pc = "done"
  /\ req.path = "config_error"
  /\ cache = AnsweredCache

\* C26: on every execution of chatStream the first item delivered is the
\* {conversationId} record and every later item is a text chunk.
C26_ConversationIdFirst ==
  (req.fn = "chatStream" /\ req.pc # "start") =>
    /\ req.out # <<>>
    /\ req.out[1] = IdItem(req.conversationId)
    /\ \A i \in 2..Len(req.out) : req.out[i].kind = "chunk"

\* an execution that delivered the error text as its only item
C26_Witness_ErrorChunkWithoutId ==
  /\ req.fn = "chatStream"
  /\ req.pc = "done"
  /\ Len(req.out) = 1
  /\ req.out[1].kind = "chunk"

(***************************************************************************)
(* SpecRetry: withRetryOnNetworkError around a function whose every call   *)
(* succeeds or fails with one of the errors listed                         *)
(***************************************************************************)
isNetworkError(error) ==
  IF ~Truthy(error) \/ ~TypeofObject(error) THEN FALSE
  ELSE
    LET Nullish(v) == v.t \in {"undefined", "null"}
        IsNetworkCode(v) == v \in {JStr(<<"ETIMEDOUT">>), JStr(<<"ENETUNREACH">>)}
        \* err.code ?? err.cause?.code
        code == IF ~Nullish(Field(error, "code")) THEN Field(error, "code")
                ELSE Field(Field(error, "cause"), "code")
        \* err.message ?? ''
        message == IF ~Nullish(Field(error, "message"))
                   THEN Field(error, "message").s ELSE <<>>
        errors == Field(error, "errors")
    IN \/ IsNetworkCode(code)
       \/ Includes(message, <<"fetch", " ", "failed">>)
       \/ /\ errors.t = "array"
          /\ \E i \in 1..Len(errors.items) :
               IsNetworkCode(Field(errors.items[i], "code"))

RetryAttemptsFour == 3 + 1

RETRY_ATTEMPTS == 3
RETRY_DELAY_MS == 1500

\* the errors a call of fn is tried with, by name
RetryErrors ==
  [timeout |-> JObj([code |-> JStr(<<"ETIMEDOUT">>)]),
   unreachable |-> JObj([code |-> JStr(<<"ENETUNREACH">>),
                         message |-> JStr(<<"connect", " ", "ENETUNREACH">>)]),
   fetchFailed |-> JObj([message |-> JStr(<<"TypeError", ":", " ", "fetch",
                                            " ", "failed">>)]),
   causeTimeout |-> JObj([message |-> JStr(<<"request", " ", "failed">>),
                          cause |-> JObj([code |-> JStr(<<"ETIMEDOUT">>)])]),
   aggregate |-> JObj([errors |-> JArr(<<JNull,
                                         JObj([code |-> JStr(<<"ECONNREFUSED">>)]),
                                         JObj([code |-> JStr(<<"ETIMEDOUT">>)])>>)]),
   notFound |-> JObj([message |-> JStr(<<"Not", " ", "Found">>)]),
   reset |-> JObj([code |-> JStr(<<"ECONNRESET">>),
                   cause |-> JObj([code |-> JStr(<<"ETIMEDOUT">>)])]),
   refusedOnly |-> JObj([errors |-> JArr(<<JObj([code |-> JStr(<<"ECONNREFUSED">>)])>>)]),
   text |-> JStr(<<"fetch", " ", "failed">>),
   null |-> JNull]

\* what one call of fn ends with
RetryOutcomes ==
  {[ok |-> TRUE, value |-> JStr(<<"quotes">>)]}
  \cup {[ok |-> FALSE, value |-> RetryErrors[name]] : name \in DOMAIN RetryErrors}

InitRetry ==
  /\ cache = <<>>
  /\ cfgMaxStored = None
  /\ cfgTtl = None
  /\ now = 1
  /\ ret = [op |-> "init"]
  /\ log = <<>>
  /\ count = [append |-> 0, update |-> 0]
  /\ req = [pc |-> "loop", attempt |-> 0, lastError |-> JUndef,
            calls |-> 0, errors |-> <<>>, waits |-> <<>>,
            result |-> None, thrown |-> None]

\* RETRY_DELAY_MS * Math.pow(2, attempt)
RECURSIVE WaitMs(_)
WaitMs(attempt) ==
  IF attempt = 0 THEN RETRY_DELAY_MS ELSE 2 * WaitMs(attempt - 1)

\* one pass of the loop: try { return await fn() } catch (error) { ... }
RetryAttempt ==
  /\ req.pc = "loop"
  /\ req.attempt < RETRY_ATTEMPTS
  /\ \E outcome \in RetryOutcomes :
       req' = IF outcome.ok
              THEN [req EXCEPT !.calls = @ + 1,
                               !.result = Some(outcome.value),
                               !.pc = "returned"]
              ELSE IF req.attempt < RETRY_ATTEMPTS - 1
                      /\ isNetworkError(outcome.value)
              THEN [req EXCEPT !.calls = @ + 1,
                               !.lastError = outcome.value,
                               !.errors = Append(@, outcome.value),
                               !.waits = Append(@, WaitMs(req.attempt)),
                               !.pc = "delay"]
              ELSE [req EXCEPT !.calls = @ + 1,
                               !.lastError = outcome.value,
                               !.errors = Append(@, outcome.value),
                               !.thrown = Some(outcome.value),
                               !.pc = "threw"]
  /\ UNCHANGED memVars

\* the delay has passed: attempt++, and throw lastError when the loop ends
RetryDelayElapsed ==
  /\ req.pc = "delay"
  /\ req' = IF req.attempt + 1 < RETRY_ATTEMPTS
            THEN [req EXCEPT !.attempt = @ + 1, !.pc = "loop"]
            ELSE [req EXCEPT !.attempt = @ + 1,
                             !.thrown = Some(req.lastError),
                             !.pc = "threw"]
  /\ UNCHANGED memVars

NextRetry == RetryAttempt \/ RetryDelayElapsed

SpecRetry == InitRetry /\ [][NextRetry]_vars

\* the failures the claim calls transient: a timeout or unreachable code (of
\* the error, of its cause, of one of its errors) or 'fetch failed' in the
\* message
TransientFailures ==
  {RetryErrors.timeout, RetryErrors.unreachable, RetryErrors.fetchFailed,
   RetryErrors.causeTimeout, RetryErrors.aggregate}

\* C27: fn is invoked at most 3 times; every failure that was followed by
\* another attempt (or a delay before one) is transient; a failure that is
\* not transient, and the failure of the third attempt, is rethrown at once as
\* it is; a success is returned at once.
C27_RetryOnlyTransientAtMostThrice ==
  /\ req.calls <= 3
  /\ req.calls = Len(req.errors) + (IF req.pc = "returned" THEN 1 ELSE 0)
  /\ \A k \in 1..Len(req.errors) :
       (k < Len(req.errors) \/ req.pc \in {"delay", "loop", "returned"}) =>
         req.errors[k] \in TransientFailures
  /\ req.pc = "delay" => req.calls < 3
  /\ req.pc = "returned" =>
       req.result = Some(JStr(<<"quotes">>)) /\ req.thrown = None
  /\ req.pc = "threw" =>
       /\ req.result = None
       /\ req.thrown = Some(req.errors[Len(req.errors)])
       /\ req.errors[Len(req.errors)] \notin TransientFailures \/ req.calls = 3
  /\ (req.errors # <<>> /\ req.errors[Len(req.errors)] \notin TransientFailures)
       => req.pc = "threw"

\* the third attempt failed with a transient error, which was rethrown
C27_Witness_ThirdTransientFailureRethrown ==
  /\ req.pc = "threw"
  /\ req.calls = 3
  /\ req.thrown = Some(RetryErrors.aggregate)
  /\ req.waits = <<1500, 3000>>

(***************************************************************************)
(* SpecTransfer: the tools of the registry invoked by the agent on the     *)
(* accounts of one user (tool.registry.ts, cash-transfer.tool.ts)          *)
(***************************************************************************)
MaxToolInvocations == 2    \* tool invocations in one behaviour

\* String.prototype.trim on the account references that are tried
TrimReference(s) ==
  CASE s = " a1 " -> "a1"
    [] s = " " -> ""
    [] OTHER -> s

\* normalize: input.trim().toLowerCase()
normalize(input) ==
  CASE TrimReference(input) = "Checking" -> "checking"
    [] TrimReference(input) = "Savings" -> "savings"
    [] TrimReference(input) = "Savings Plus" -> "savings plus"
    [] TrimReference(input) = "Sav" -> "sav"
    [] OTHER -> TrimReference(input)

\* String.prototype.includes on normalized names
NameIncludes(name, part) ==
  \/ name = part
  \/ part = ""
  \/ <<name, part>> \in {<<"checking", "check">>, <<"savings", "sav">>,
                         <<"savings plus", "sav">>, <<"savings plus", "savings">>,
                         <<"savings plus", "plus">>}

Account(id, name, balance) ==
  [id |-> id, name |-> name, currency |-> "USD", balance |-> balance]

\* parseArgs: the arguments, or threw when a property of null is read
parseArgs(input) ==
  LET parsed ==
        CASE input.t = "string" -> input.json
          [] input.t = "object" /\ Field(input, "args").t = "string" ->
               Field(input, "args").json
          [] OTHER -> input
      Str(name) == IF Field(parsed, name).t = "string"
                   THEN Some(TrimReference(Field(parsed, name).s)) ELSE None
      empty == [threw |-> FALSE, amount |-> None, fromAccountId |-> None,
                toAccountId |-> None, fromAccountName |-> None,
                toAccountName |-> None, confirm |-> None]
  IN IF input.t \in {"null", "undefined"} THEN empty
     ELSE IF input.t \notin {"string", "object"} THEN empty
     ELSE IF parsed.t = "syntaxerror" THEN empty
     ELSE IF parsed.t \in {"null", "undefined"} THEN [empty EXCEPT !.threw = TRUE]
     ELSE [threw |-> FALSE,
           amount |-> IF Field(parsed, "amount").t = "number"
                      THEN Some(Field(parsed, "amount").n) ELSE None,
           fromAccountId |-> Str("fromAccountId"),
           toAccountId |-> Str("toAccountId"),
           fromAccountName |-> Str("fromAccountName"),
           toAccountName |-> Str("toAccountName"),
           confirm |-> IF Field(parsed, "confirm").t = "boolean"
                       THEN Some(Field(parsed, "confirm").b) ELSE None]

\* resolveAccount: the account, or the error text
resolveAccount(accounts, accountId, accountName) ==
  LET byId == SelectSeq(accounts, LAMBDA a : accountId.some /\ a.id = accountId.val)
      normalizedName == normalize(accountName.val)
      exactMatches ==
        SelectSeq(accounts, LAMBDA a : normalize(a.name) = normalizedName)
      partialMatches ==
        SelectSeq(accounts,
                  LAMBDA a : NameIncludes(normalize(a.name), normalizedName))
  IN IF accountId.some /\ accountId.val # ""
     THEN IF byId = <<>>
          THEN [error |-> Some(<<"Account with id ", accountId.val, " not found.">>)]
          ELSE [error |-> None, account |-> byId[1]]
     ELSE IF accountName.some /\ accountName.val # ""
     THEN IF Len(exactMatches) = 1
          THEN [error |-> None, account |-> exactMatches[1]]
          ELSE IF Len(exactMatches) > 1
          THEN [error |-> Some(<<"Multiple accounts match ", accountName.val,
                                 ". Please use account id.">>)]
          ELSE IF Len(partialMatches) = 1
          THEN [error |-> None, account |-> partialMatches[1]]
          ELSE IF Len(partialMatches) > 1
          THEN [error |-> Some(<<"Multiple accounts match ", accountName.val>>)]
          ELSE [error |-> Some(<<"Account named ", accountName.val, " not found.">>)]
     ELSE [error |-> Some(<<"Missing account reference.">>)]

\* accountService.updateAccountBalance: amount is added to the balance
updateAccountBalance(accounts, accountId, amount) ==
  [i \in 1..Len(accounts) |->
     IF accounts[i].id = accountId
     THEN [accounts[i] EXCEPT !.balance = @ + amount] ELSE accounts[i]]

ToolResult(kind, text, accounts) ==
  [kind |-> kind, text |-> text, accounts |-> accounts]

\* func of cash_transfer on the stored accounts: what it returns and the
\* accounts after it.  failure names the call of the account service that
\* throws in this invocation, if one does.
cashTransfer(accounts, input, failure) ==
  LET args == parseArgs(input)
      Caught == ToolResult("error", <<"Could not complete cash transfer.">>,
                           accounts)
      fromResolved == resolveAccount(accounts, args.fromAccountId,
                                     args.fromAccountName)
      toResolved == resolveAccount(accounts, args.toAccountId,
                                   args.toAccountName)
      debited == updateAccountBalance(accounts, fromResolved.account.id,
                                      0 - args.amount.val)
      credited == updateAccountBalance(debited, toResolved.account.id,
                                       args.amount.val)
  IN IF args.threw THEN Caught
     ELSE IF ~args.amount.some \/ args.amount.val <= 0
     THEN ToolResult("error",
                     <<"amount is required and must be greater than 0.">>,
                     accounts)
     ELSE IF failure = "getAccounts" THEN Caught
     ELSE IF fromResolved.error.some
     THEN ToolResult("error", fromResolved.error.val, accounts)
     ELSE IF toResolved.error.some
     THEN ToolResult("error", toResolved.error.val, accounts)
     ELSE IF fromResolved.account.id = toResolved.account.id
     THEN ToolResult("error",
                     <<"source and destination accounts must be different.">>,
                     accounts)
     ELSE IF fromResolved.account.balance < args.amount.val
     THEN ToolResult("error",
                     <<"insufficient funds in ", fromResolved.account.name>>,
                     accounts)
     ELSE IF ~(args.confirm.some /\ args.confirm.val)
     THEN ToolResult("preview",
                     <<"Transfer preview", fromResolved.account.id,
                       toResolved.account.id,
                       "Action not executed. Set confirm=true to execute this transfer.">>,
                     accounts)
     ELSE IF failure = "debit" THEN Caught
     ELSE IF failure = "credit"
     THEN ToolResult("error", <<"Could not complete cash transfer.">>, debited)
     ELSE ToolResult("completed",
                     <<"Transfer completed.", fromResolved.account.name,
                       toResolved.account.name>>,
                     credited)

\* the accounts of the user before the agent runs
AccountSets ==
  {<<Account("a1", "Checking", 100), Account("a2", "Savings", 50),
     Account("a3", "Savings Plus", 0)>>,
   <<Account("a1", "Checking", 100), Account("a2", "Savings", 50),
     Account("a3", "Savings", 0)>>}

\* the inputs the model passes to cash_transfer
TransferInputs ==
  LET Amounts == {JUndef, JNum(30), JNum(200), JNum(0)}
      Froms == {[fromAccountId |-> JStr(" a1 ")],
                [fromAccountName |-> JStr("Sav")],
                [fromAccountId |-> JStr(" "), fromAccountName |-> JStr("Savings")],
                EmptyObject}
      Tos == {[toAccountId |-> JStr("a2")], [toAccountId |-> JStr("a1")],
              [toAccountName |-> JStr("plus")], [toAccountId |-> JStr("zz")]}
      Confirms == {JUndef, JBool(TRUE), JBool(FALSE)}
      Object(amount, from, to, confirm) ==
        LET all == [k \in {"amount", "confirm"} \cup DOMAIN from \cup DOMAIN to |->
                      IF k = "amount" THEN amount
                      ELSE IF k = "confirm" THEN confirm
                      ELSE IF k \in DOMAIN from THEN from[k] ELSE to[k]]
        IN [k \in {x \in DOMAIN all : all[x] # JUndef} |-> all[k]]
      confirmed == Object(JNum(30), [fromAccountId |-> JStr("a1")],
                          [toAccountId |-> JStr("a2")], JBool(TRUE))
  IN {JNull, JText(JSyntaxError), JText(JNull), JNum(30),
      JText(JObj(confirmed)), JObj([args |-> JText(JObj(confirmed))])}
     \cup {JObj(Object(amount, from, to, confirm)) :
             amount \in Amounts, from \in Froms, to \in Tos, confirm \in Confirms}

InitTransfer ==
  /\ cache = <<>>
  /\ cfgMaxStored = None
  /\ cfgTtl = None
  /\ now = 1
  /\ ret = [op |-> "init"]
  /\ log = <<>>
  /\ count = [append |-> 0, update |-> 0]
  /\ \E accounts \in AccountSets :
       req = [accounts |-> accounts, start |-> accounts, invocations |-> 0,
              tool |-> "none", input |-> JNull, before |-> accounts,
              result |-> ToolResult("none", <<>>, accounts).text,
              kind |-> "none"]

\* the agent invokes cash_transfer
InvokeCashTransfer ==
  /\ req.invocations < MaxToolInvocations
  /\ \E input \in TransferInputs,
        failure \in {"none", "getAccounts", "debit", "credit"} :
       LET r == cashTransfer(req.accounts, input, failure)
       IN req' = [req EXCEPT !.accounts = r.accounts,
                             !.invocations = @ + 1,
                             !.tool = "cash_transfer",
                             !.input = input,
                             !.before = req.accounts,
                             !.result = r.text,
                             !.kind = r.kind]
  /\ UNCHANGED memVars

\* the agent invokes one of the other tools of the registry: they read the
\* portfolio, the orders or market data
InvokeReadingTool ==
  /\ req.invocations < MaxToolInvocations
  /\ \E name \in GauntletToolNames \ {"cash_transfer"} :
       req' = [req EXCEPT !.invocations = @ + 1,
                          !.tool = name,
                          !.input = JNull,
                          !.before = req.accounts,
                          !.result = <<>>,
                          !.kind = "text"]
  /\ UNCHANGED memVars

NextTransfer == InvokeCashTransfer \/ InvokeReadingTool

SpecTransfer == InitTransfer /\ [][NextTransfer]_vars

\* C28: after every sequence of tool invocations of the agent the balances
\* of the accounts are what they were before it.
C28_ToolsLeaveAccountsUnchanged == req.accounts = req.start

\* a completed transfer of 30 from a1 to a2
C28_Witness_TransferCompleted ==
  /\ req.tool = "cash_transfer"
  /\ req.kind = "completed"
  /\ req.before = req.start
  /\ req.accounts[1].balance = req.start[1].balance - 30
  /\ req.accounts[2].balance = req.start[2].balance + 30

\* the conditions of a transfer hold for the input of the last invocation
TransferConditions ==
  LET args == parseArgs(req.input)
      from == resolveAccount(req.before, args.fromAccountId, args.fromAccountName)
      to == resolveAccount(req.before, args.toAccountId, args.toAccountName)
  IN /\ ~args.threw
     /\ args.confirm = Some(TRUE)
     /\ args.amount.some
     /\ args.amount.val > 0
     /\ ~from.error.some
     /\ ~to.error.some
     /\ from.account.id # to.account.id
     /\ from.account.balance >= args.amount.val

\* C29: an invocation of cash_transfer changes a balance only if confirm is
\* true, amount > 0, both accounts resolve, they differ and the source holds
\* the amount; an invocation that returns a preview or an error changes no
\* balance.
C29_TransferOnlyWhenConfirmed ==
  req.tool = "cash_transfer" =>
    /\ req.accounts # req.before => TransferConditions
    /\ req.kind \in {"preview", "error"} => req.accounts = req.before

\* the credit failed after the debit: cash_transfer returned an error and the
\* source is 30 short
C29_Witness_ErrorAfterDebit ==
  /\ req.tool = "cash_transfer"
  /\ req.kind = "error"
  /\ req.accounts[1].balance = req.before[1].balance - 30
  /\ \A i \in 2..Len(req.accounts) : req.accounts[i] = req.before[i]

(***************************************************************************)
(* SpecStreamLive: one chatStream request whose consumer reads the stream  *)
(* to its end and whose classifier, model, tool and store calls all        *)
(* return.  Each step of the generator is then taken once it is enabled,   *)
(* which is weak fairness of the steps.                                    *)
(***************************************************************************)
MaxModelCalls == 6    \* calls of the tool-augmented model in one behaviour

InitStreamLive ==
  /\ cfgMaxStored = None
  /\ cfgTtl = None
  /\ now = 1
  /\ ret = [op |-> "init"]
  /\ log = <<>>
  /\ count = [append |-> 0, update |-> 0]
  /\ cache \in {<<>>, AnsweredCache}
  /\ \E message \in {MsgKeyword, <<"show", " ", "more">>,
                     <<"what", " ", "is", " ", "the", " ", "weather">>},
        apiKey \in BOOLEAN :
       req = NewRequest("chatStream", Some(" c1 "), message, apiKey)

\* the model is called while the behaviour has calls left
StreamModelCalled ==
  /\ req.modelCalls < MaxModelCalls
  /\ StreamModel

NextStreamLive ==
  \/ StreamStart
  \/ StreamIntentCheck
  \/ StreamSecondChance
  \/ StreamGate
  \/ StreamClarify
  \/ StreamRefuse
  \/ StreamPrepare
  \/ StreamModelCalled
  \/ StreamTools
  \/ StreamExhausted

\* a step of the generator can be taken: the guards of the steps
StreamCanStep ==
  \/ req.pc \in {"start", "intent", "secondChance", "gate", "tools", "exhausted"}
  \/ req.pc = "decided" /\ req.decision \in {"clarify", "off_topic", "on_topic"}
  \/ req.pc = "model" /\ LoopGuard(req.round) /\ req.modelCalls < MaxModelCalls

\* weak fairness of the steps of the generator, WF_vars(NextStreamLive), with
\* ENABLED <<NextStreamLive>>_vars written out as StreamCanStep
StreamFairness == []<>(~StreamCanStep) \/ []<><<NextStreamLive>>_vars

SpecStreamLive == InitStreamLive /\ [][NextStreamLive]_vars /\ StreamFairness

\* a step is taken only from a state in which StreamCanStep holds
StreamStepsOnlyWhenCanStep == [][StreamCanStep]_vars

\* C30: when every call returns, every chatStream request reaches its end,
\* whatever the classifier and the model answer, also when the model asks
\* for tools in every round.
C30_StreamTerminates == <>(req.pc = "done")

\* the model asked for tools in all five rounds and the request ended
C30_Witness_EndedAfterFiveToolRounds ==
  /\ req.pc = "done"
  /\ req.path = "fallback"
  /\ req.toolRounds = maxToolRounds
  /\ req.modelCalls = maxToolRounds

(***************************************************************************)
(* SpecRound: the passes of the loop of chatStream with the running        *)
(* message list and the ids of the tool calls; the tool calls of a pass    *)
(* are run one step each (lines 1024-1079)                                 *)
(***************************************************************************)
MaxTrackedRounds == 2    \* passes of the loop in one behaviour

\* a tool call of a response with its id (None: the response gave none)
ToolCallWithId(id, name, args) == [id |-> id, name |-> name, args |-> args]

\* new ToolMessage({content, tool_call_id: tc.id})
ToolMessage(content, tc) ==
  [role |-> "tool", content |-> content, tool_call_id |-> tc.id]

PushRoundResultsFirst(messages, response, toolResults) ==
  messages \o toolResults \o <<response>>

\* messages.push(response, ...toolResults)
PushRound(messages, response, toolResults) ==
  messages \o <<response>> \o toolResults

\* the responses of the model that are tried in a pass
RoundResponses ==
  {ModelResponse(AnswerText, <<>>),
   ModelResponse(<<>>,
     <<ToolCallWithId(Some("call_1"), "portfolio_details", ToolArgs(None)),
       ToolCallWithId(Some("call_2"), "activities_list", ToolArgs(None))>>),
   ModelResponse(<<"Checking", " ">>,
     <<ToolCallWithId(Some("call_1"), "web_search", ToolArgs(None)),
       ToolCallWithId(Some("call_2"), "portfolio_details", ToolArgs(None))>>),
   ModelResponse(<<>>,
     <<ToolCallWithId(Some("call_1"), "portfolio_details", ToolArgs(None)),
       ToolCallWithId(Some("call_2"), "market_historical",
                      ToolArgs(Some(<<"msft">>))),
       ToolCallWithId(Some("call_3"), "activities_list", ToolArgs(None))>>),
   ModelResponse(<<>>,
     <<ToolCallWithId(None, "portfolio_details", ToolArgs(None)),
       ToolCallWithId(Some("call_2"), "portfolio_details", ToolArgs(None))>>)}

\* what a registered tool can return
RoundOutputs(name) ==
  IF name = "market_historical" THEN ToolOutputs(name)
  ELSE {DetailsOutput, <<"No", " ", "activities", ".">>}

InitRound ==
  /\ cache = <<>>
  /\ cfgMaxStored = None
  /\ cfgTtl = None
  /\ now = 1
  /\ ret = [op |-> "init"]
  /\ log = <<>>
  /\ count = [append |-> 0, update |-> 0]
  /\ \E message \in {MsgKeyword, <<"msft">>} :
       req = [pc |-> "model",
              message |-> message,
              round |-> 0,
              messages |-> <<[role |-> "system"],
                             [role |-> "human", content |-> message]>>,
              response |-> ModelResponse(<<>>, <<>>),
              next |-> 1,
              toolResults |-> <<>>,
              invocations |-> <<>>,
              completed |-> None,
              path |-> "running"]

\* the model is streamed; a response without tool calls ends the request
RoundModel ==
  /\ req.pc = "model"
  /\ LoopGuard(req.round)
  /\ req.round < MaxTrackedRounds
  /\ \E response \in RoundResponses :
       req' = IF response.tool_calls = <<>>
              THEN [req EXCEPT !.response = response,
                               !.invocations = <<>>,
                               !.completed = None,
                               !.path = "final",
                               !.pc = "done"]
              ELSE [req EXCEPT !.response = response,
                               !.next = 1,
                               !.toolResults = <<>>,
                               !.invocations = <<>>,
                               !.completed = None,
                               !.pc = "tools"]
  /\ UNCHANGED memVars

\* one pass of `for (const tc of response.tool_calls)`
RoundToolCall ==
  /\ req.pc = "tools"
  /\ req.next <= Len(req.response.tool_calls)
  /\ LET tc == req.response.tool_calls[req.next]
         registered == tc.name \in GauntletToolNames
         args == IF tc.name = "market_historical"
                 THEN hydrateMarketHistoricalArgs(tc.args, req.message, <<>>)
                 ELSE tc.args
     IN \E output \in RoundOutputs(tc.name) :
          LET content == IF registered THEN output ELSE ToolNotFoundText
              clarification ==
                IF tc.name = "market_historical"
                THEN buildMarketHistoricalArgumentQuestion(content, args)
                ELSE None
              invocation == [call |-> req.next, name |-> tc.name,
                             invoked |-> registered, content |-> content]
          IN req' = IF clarification.some
                    THEN [req EXCEPT
                            !.invocations = Append(@, invocation),
                            !.path = "market_clarification",
                            !.pc = "done"]
                    ELSE [req EXCEPT
                            !.invocations = Append(@, invocation),
                            !.toolResults = Append(@, ToolMessage(content, tc)),
                            !.next = @ + 1]
  /\ UNCHANGED memVars

\* after the last tool call: the messages of the pass are pushed
RoundEnd ==
  /\ req.pc = "tools"
  /\ req.next > Len(req.response.tool_calls)
  /\ req' = [req EXCEPT
               !.messages = PushRound(req.messages, req.response, req.toolResults),
               !.completed = Some([before |-> req.messages]),
               !.round = @ + 1,
               !.pc = IF LoopGuard(req.round + 1) THEN "model" ELSE "done"]
  /\ UNCHANGED memVars

NextRound == RoundModel \/ RoundToolCall \/ RoundEnd

SpecRound == InitRound /\ [][NextRound]_vars

\* C31: the tool calls of a pass are run one at a time in the order of the
\* response; a name outside the registry gives the fixed text and the pass
\* goes on; when the pass completes, the message list has grown by the
\* response followed by one tool message per call, in order, with the
\* content of that call and its id.
C31_RoundOrderAndMessages ==
  LET calls == req.response.tool_calls
      done == req.invocations
  IN /\ req.pc \in {"tools", "done"} =>
          /\ Len(done) <= Len(calls)
          /\ \A k \in 1..Len(done) :
               /\ done[k].call = k
               /\ done[k].name = calls[k].name
               /\ done[k].invoked = (calls[k].name \in GauntletToolNames)
               /\ ~done[k].invoked => done[k].content = ToolNotFoundText
     /\ req.completed.some =>
          /\ Len(done) = Len(calls)
          /\ Len(req.messages) = Len(req.completed.val.before) + 1 + Len(calls)
          /\ SubSeq(req.messages, 1, Len(req.completed.val.before))
               = req.completed.val.before
          /\ req.messages[Len(req.completed.val.before) + 1] = req.response
          /\ \A k \in 1..Len(calls) :
               req.messages[Len(req.completed.val.before) + 1 + k]
                 = [role |-> "tool", content |-> done[k].content,
                    tool_call_id |-> calls[k].id]

\* a completed pass whose first call names no registered tool
C31_Witness_PassWithUnknownTool ==
  /\ req.completed.some
  /\ req.response.tool_calls[1].name = "web_search"
  /\ req.invocations[1].content = ToolNotFoundText
  /\ req.invocations[2].invoked
  /\ Len(req.messages) = Len(req.completed.val.before) + 3

(***************************************************************************)
(* SpecMerge: updateIntentState on one conversation with patches that      *)
(* carry every subset of the fields, also an updatedAt of their own, while *)
(* the clock advances                                                      *)
(***************************************************************************)
MaxTime == 3    \* the clock stops here

\* a patch that also carries the property updatedAt
WithUpdatedAt(patch, updatedAt) ==
  [k \in DOMAIN patch \cup {"updatedAt"} |->
     IF k = "updatedAt" THEN updatedAt
     ELSE IF k = "has" THEN patch.has \cup {"updatedAt"}
     ELSE patch[k]]

MergePatches ==
  LET plain ==
        {ClarifyPatch, OffTopicPatch,
         FullPatch("on_topic", Some(<<"market_historical">>), <<<<"AAPL">>>>, FALSE),
         FullPatch("on_topic", None, <<<<"MSFT">>>>, FALSE),
         Patch({"recentEntities"}, "uncertain", None, <<<<"TSLA">>>>, FALSE),
         Patch({"lastToolUsed"}, "uncertain", Some(<<"portfolio_details">>), <<>>,
               FALSE),
         Patch({"pendingClarification"}, "uncertain", None, <<>>, TRUE),
         Patch({}, "uncertain", None, <<>>, FALSE)}
  IN plain \cup {WithUpdatedAt(ClarifyPatch, ToISOString(0)),
                 WithUpdatedAt(Patch({}, "uncertain", None, <<>>, FALSE),
                               ToISOString(9))}

InitMerge ==
  /\ InitMemory
  /\ cfgMaxStored = None
  /\ cfgTtl = None

MUpdateIntentState ==
  \E patch \in MergePatches : UpdateIntentStateCall("u1", "c1", patch, None)

\* time passes between two calls
MergeTick ==
  /\ now < MaxTime
  /\ now' = now + 1
  /\ ret' = [op |-> "tick"]
  /\ UNCHANGED <<cache, cfgMaxStored, cfgTtl, log, count, req>>

NextMerge == MUpdateIntentState \/ MergeTick

SpecMerge == InitMerge /\ [][NextMerge]_vars

ConfiguredTtl == 60 * 1000     \* a GAUNTLET_CONVERSATION_TTL_MS value
OverrideTtl == 5 * 1000        \* a ttlMs argument
MaxStoreWrites == 3        \* writes to the two stores in one behaviour

TtlOverrides == {None, Some(0), Some(OverrideTtl)}

StoreConversationIds == {"c1", "c2"}

StorePatches ==
  {Patch({"lastIntent"}, "on_topic", None, <<>>, FALSE),
   Patch({"lastIntent", "pendingClarification"}, "uncertain", None, <<>>, TRUE)}

InitStores ==
  /\ InitMemory
  /\ cfgMaxStored = None
  /\ cfgTtl \in {None, Some(ConfiguredTtl)}

StoreAppendTurn ==
  \E conv \in StoreConversationIds, ttlMs \in TtlOverrides :
    /\ count.append + count.update < MaxStoreWrites
    /\ cache' = appendTurn(cache, conv, "u1", <<"h1">>, <<"a1">>, ttlMs)
    /\ ret' = [op |-> "appendTurn", user |-> "u1", conv |-> conv,
               ttlMs |-> ttlMs, before |-> cache]
    /\ count' = [count EXCEPT !.append = @ + 1]
    /\ UNCHANGED <<cfgMaxStored, cfgTtl, now, log, req>>

StoreUpdateIntentState ==
  \E conv \in StoreConversationIds, ttlMs \in TtlOverrides,
     patch \in StorePatches :
    /\ count.append + count.update < MaxStoreWrites
    /\ cache' = updateIntentState(cache, conv, "u1", patch, ttlMs, now)
    /\ ret' = [op |-> "updateIntentState", user |-> "u1", conv |-> conv,
               ttlMs |-> ttlMs, before |-> cache]
    /\ count' = [count EXCEPT !.update = @ + 1]
    /\ UNCHANGED <<cfgMaxStored, cfgTtl, now, log, req>>

NextStores == StoreAppendTurn \/ StoreUpdateIntentState \/ Expire

SpecStores == InitStores /\ [][NextStores]_vars

\* the ttl a write must leave on its key: the override, else the configured
\* value, else seven days
SevenDaysMs == 7 * 24 * 60 * 60 * 1000

ExpectedTtl(ttlMs) ==
  IF ttlMs # None THEN ttlMs.val
  ELSE IF cfgTtl # None THEN cfgTtl.val
  ELSE SevenDaysMs

\* every entry but the one under `written` is what it was before the call
OnlyKeyWritten(before, after, written) ==
  /\ DOMAIN after = DOMAIN before \cup {written}
  /\ \A k \in DOMAIN before \ {written} : after[k] = before[k]

PoemLikeThat ==
  <<"please", " ", "write", " ", "a", " ", "poem", " ", "about", " ", "autumn",
    " ", "leaves", " ", "just", " ", "like", " ", "that">>

FollowUpMessages ==
  {<<"show", " ", "more">>,
   <<"more", " ", "weather">>,
   <<"and", " ", "MSFT">>,
   PoemLikeThat,
   PoemLikeThat \o <<" ", "movie">>,
   <<"please", " ", "write", " ", "a", " ", "poem", " ", "about", " ", "autumn",
     " ", "leaves", " ", "for", " ", "me">>,
   MsgKeyword}

OnTopicCache ==
  updateIntentState(<<>>, "c1", "u1",
                    FullPatch("on_topic", None, <<>>, FALSE), None, 0)

RefusedCache == updateIntentState(<<>>, "c1", "u1", OffTopicPatch, None, 0)

InitFollowUp ==
  /\ cfgMaxStored = None
  /\ cfgTtl = None
  /\ now = 1
  /\ ret = [op |-> "init"]
  /\ log = <<>>
  /\ count = [append |-> 0, update |-> 0]
  /\ cache \in {<<>>, OnTopicCache, AnsweredCache, ClarifiedCache, RefusedCache}
  /\ \E message \in FollowUpMessages, first \in GateAnswers, second \in GateAnswers :
       req = [NewRequest("chatStream", Some(" c1 "), message, TRUE) EXCEPT
                !.classifier = Some([first |-> first, second |-> second])]

NextFollowUp ==
  \/ StreamStart
  \/ StreamIntentCheck
  \/ StreamSecondChance
  \/ StreamGate

SpecFollowUp == InitFollowUp /\ [][NextFollowUp]_vars

\* the lastIntent stored for the conversation of the request
StoredLastIntent == getIntentState(cache, "c1", "u1").lastIntent

HasOutOfDomainWord(message) ==
  \E i \in 1..Len(message) :
    \E w \in OutOfDomainWords : toLowerCase(<<message[i]>>) = <<w>>

\* short (at most eight words) or holding a follow-up pronoun
ShortOrAnaphoric(message) ==
  \/ Len(SelectSeq(message, LAMBDA a : a # " ")) <= 8
  \/ \E i \in 1..Len(message) :
       \E w \in FollowUpPronounWords : toLowerCase(<<message[i]>>) = <<w>>

\* the decision the two answers of the classifier give when no heuristic
\* takes part
ClassifierAloneDecision(first, second) ==
  LET a == parseIntentClassification(first)
      again == \/ a.label = "uncertain"
               \/ a.label = "off_topic" /\ a.confidence >= 90 /\ a.confidence < 97
      c == IF again THEN parseIntentClassification(second) ELSE a
  IN IF c.label = "off_topic" /\ c.confidence >= 97 THEN "off_topic"
     ELSE IF c.label = "uncertain"
             \/ (c.label = "off_topic" /\ c.confidence >= 93) THEN "clarify"
     ELSE "on_topic"

\* C34: the follow-up override is set only when the stored lastIntent is
\* on_topic and the message has no out-of-domain word, and then the gate
\* decides on-topic; a short or anaphoric message without keyword and
\* without entity hit, when the stored lastIntent is off_topic or uncertain
\* or the message has an out-of-domain word, gets the decision the answers
\* of the classifier alone give.
C34_FollowUpOverrideOnlyAfterOnTopic ==
  req.pc = "decided" =>
    /\ req.shortFollowUpOverride =>
         /\ StoredLastIntent = "on_topic"
         /\ ~HasOutOfDomainWord(req.message)
         /\ req.decision = "on_topic"
    /\ ( /\ ShortOrAnaphoric(req.message)
         /\ ~req.keywordHit
         /\ ~req.entityHit
         /\ \/ StoredLastIntent \in {"off_topic", "uncertain"}
            \/ HasOutOfDomainWord(req.message) )
       => /\ ~req.shortFollowUpOverride
          /\ req.decision = ClassifierAloneDecision(req.classifier.val.first,
                                                    req.classifier.val.second)

\* a short message after a refused turn, refused again on the word of the
\* classifier
C34_Witness_ShortMessageAfterRefusal ==
  /\ req.pc = "decided"
  /\ req.message = <<"show", " ", "more">>
  /\ StoredLastIntent = "off_topic"
  /\ ~req.keywordHit
  /\ ~req.entityHit
  /\ req.decision = "off_topic"


(***************************************************************************)
(* SpecParse: the gate of chatStream over answers of the classifier that   *)
(* keep and that break the JSON contract (AGENT_OBJECTIVE_AND_TOOLS.md     *)
(* 439-466, 862-906)                                                       *)
(***************************************************************************)
\* {"label": label, "confidence": confidence, "reason": reason}
AnswerObject(label, confidence, reason) ==
  JObj([label |-> label, confidence |-> confidence, reason |-> reason])

ParseAnswers ==
  {NotJson, JNull, JNum(1), JStr(<<"on_topic">>), JArr(<<>>),
   RawClassification(Some("on_topic"), Some(96)),
   RawClassification(Some("ON_TOPIC"), Some(98)),
   RawClassification(Some("Uncertain"), Some(10)),
   RawClassification(Some("off_topic"), Some(150)),
   RawClassification(Some("off_topic"), Some(0 - 5)),
   RawClassification(Some("maybe"), Some(97)),
   RawClassification(Some("on_topic"), None),
   RawClassification(None, Some(97)),
   AnswerObject(JStr(<<" ", "on_topic">>), JNum(97), JStr(<<"padded">>)),
   AnswerObject(JNum(5), JNum(97), JStr(<<"number">>)),
   AnswerObject(JNull, JNum(97), JNull),
   AnswerObject(JStr(<<"on_topic">>), JStr(<<"97">>), JStr(<<"text">>)),
   AnswerObject(JStr(<<"off_topic">>), JNum(97), JNum(3)),
   AnswerObject(JStr(<<"on_topic">>), JNum(96), JObj([toString |-> JNum(1)]))}

SecondParseAnswers ==
  {NotJson,
   RawClassification(Some("OFF_TOPIC"), Some(99)),
   RawClassification(Some("off_topic"), Some(97))}

ParseMessages ==
  {<<"show", " ", "more">>,
   <<"please", " ", "write", " ", "a", " ", "poem", " ", "about", " ", "autumn",
     " ", "leaves", " ", "for", " ", "me">>}

InitParse ==
  /\ cfgMaxStored = None
  /\ cfgTtl = None
  /\ now = 1
  /\ ret = [op |-> "init"]
  /\ log = <<>>
  /\ count = [append |-> 0, update |-> 0]
  /\ cache \in {<<>>, OnTopicCache}
  /\ \E message \in ParseMessages, first \in ParseAnswers,
        second \in SecondParseAnswers :
       req = [NewRequest("chatStream", Some(" c1 "), message, TRUE) EXCEPT
                !.classifier = Some([first |-> first, second |-> second])]

NextParse ==
  \/ StreamStart
  \/ StreamIntentCheck
  \/ StreamSecondChance
  \/ StreamGate

SpecParse == InitParse /\ [][NextParse]_vars

\* the answer the stored classification was parsed from
ParsedAnswer ==
  IF req.secondChanceUsed THEN req.classifier.val.second
  ELSE req.classifier.val.first

\* a JSON object whose label is one of the three labels (in any case when
\* anyCase) and whose confidence is a number
KeepsContract(v, anyCase) ==
  /\ v.t = "object"
  /\ "label" \in DOMAIN v.f
  /\ v.f["label"].t = "string"
  /\ Len(v.f["label"].s) = 1
  /\ \E l \in IntentLabels :
       \/ v.f["label"].s[1] = l
       \/ anyCase /\ LowerLabel(v.f["label"].s[1]) = l
  /\ "confidence" \in DOMAIN v.f
  /\ v.f["confidence"].t = "number"

Clamped(n) == IF n < 0 THEN 0 ELSE IF n > 100 THEN 100 ELSE n

\* the request went on from the classifier call without an exception
ContinuesToGate ==
  /\ req.path = "running"
  /\ req.pc \in {"secondChance", "gate", "decided"}

\* C35 as stated: for an answer that is not valid JSON with a label in
\* {on_topic, off_topic, uncertain} and a numeric confidence the parsed
\* classification is {uncertain, 0.5}, otherwise it is that label with the
\* confidence clamped into [0, 1], and the request continues to the gate.
C35_ParseFallbackExactLabel ==
  req.classifierCalls >= 1 =>
    /\ ContinuesToGate
    /\ req.intentClassification =
         IF KeepsContract(ParsedAnswer, FALSE)
         THEN Classification(ParsedAnswer.f["label"].s[1],
                             Clamped(ParsedAnswer.f["confidence"].n))
         ELSE Classification("uncertain", 50)

\* C35, amended: the label is compared in lower case and returned in lower
\* case, and an answer whose reason cannot be converted to a string is
\* answered by {uncertain, 0.5} as well.
C35_ParseFallbackLowerCasedLabel ==
  req.classifierCalls >= 1 =>
    /\ ContinuesToGate
    /\ req.intentClassification =
         IF /\ KeepsContract(ParsedAnswer, TRUE)
            /\ ~("reason" \in DOMAIN ParsedAnswer.f
                 /\ ParsedAnswer.f["reason"].t = "object"
                 /\ "toString" \in DOMAIN ParsedAnswer.f["reason"].f)
         THEN Classification(LowerLabel(ParsedAnswer.f["label"].s[1]),
                             Clamped(ParsedAnswer.f["confidence"].n))
         ELSE Classification("uncertain", 50)

\* the answer {"label": "ON_TOPIC", "confidence": 0.98} was parsed as
\* on_topic and the gate decided on-topic
C35_Witness_UpperCaseLabelAccepted ==
  /\ req.pc = "decided"
  /\ ~req.secondChanceUsed
  /\ req.classifier.val.first = RawClassification(Some("ON_TOPIC"), Some(98))
  /\ req.intentClassification = Classification("on_topic", 98)
  /\ req.decision = "on_topic"


(***************************************************************************)
(* Delivery of the persisted reply (checked under SpecChat)                *)
(***************************************************************************)
\* the texts of a sequence of chunks, one after the other
RECURSIVE ConcatTexts(_)
ConcatTexts(texts) ==
  IF texts = <<>> THEN <<>> ELSE texts[1] \o ConcatTexts(Tail(texts))

\* C36: for a chatStream request that persisted an assistant turn, the text
\* chunks delivered in the last pass of the loop, concatenated, are the
\* persisted text up to surrounding whitespace: the persisted reply is
\* neither missing from the stream nor delivered twice.
C36_PersistedReplyDeliveredOnce ==
  (req.fn = "chatStream" /\ req.pc = "done" /\ req.persisted # <<>>) =>
    Trim(ConcatTexts(req.roundChunks))
      = Trim(req.persisted[Len(req.persisted)].assistant)

\* the model answered with blank text and no tool call: the default
\* sentence is stored and no chunk was delivered
C36_Witness_DefaultSentenceNotDelivered ==
  /\ req.fn = "chatStream"
  /\ req.pc = "done"
  /\ req.path = "final"
  /\ req.persisted = <<[human |-> req.message, assistant |-> NoResponseText]>>
  /\ req.roundChunks = <<>>
  /\ \A i \in 1..Len(req.out) : req.out[i].kind = "conversationId"


(***************************************************************************)
(* SpecPending: requests of chatStream on one conversation whose intent    *)
(* updates interleave; updateIntentState is a get followed by a set        *)
(* (AGENT_OBJECTIVE_AND_TOOLS.md 910-928, 1008-1020, 1056-1065,            *)
(* conversation-memory.service.ts 201-228)                                 *)
(***************************************************************************)
MaxPendingRequests == 3     \* requests in one behaviour

\* the patches chatStream passes to updateIntentState: gate clarification,
\* refusal, final answer, market clarification
PendingPatches ==
  {ClarifyPatch,
   OffTopicPatch,
   FullPatch("on_topic", Some(<<"portfolio_details">>), <<<<"MSFT">>>>, FALSE),
   FullPatch("uncertain", Some(<<"market_historical">>), <<<<"AAPL">>>>, TRUE)}

\* a state another writer left: on_topic with a pending clarification
InconsistentCache ==
  updateIntentState(<<>>, "c1", "u1", OffTopicPatchPending, None, 0)

PendingCaller ==
  [pc |-> "idle", patch |-> ClarifyPatch, current |-> defaultIntentState,
   served |-> 0]

InitPending ==
  /\ cfgMaxStored = None
  /\ cfgTtl = None
  /\ now = 1
  /\ ret = [op |-> "init"]
  /\ log = <<>>
  /\ count = [append |-> 0, update |-> 0]
  /\ cache \in {<<>>, AnsweredCache, InconsistentCache}
  /\ req = [p |-> <<PendingCaller, PendingCaller>>, persisted |-> None]

\* a request reaches one of its updateIntentState calls:
\* const current = await this.getIntentState(conversationId, userId)
PendingUpdateGet(i) ==
  /\ req.p[i].pc = "idle"
  /\ req.p[1].served + req.p[2].served
       + Cardinality({j \in {1, 2} : req.p[j].pc = "updateSet"})
     < MaxPendingRequests
  /\ \E patch \in PendingPatches :
       req' = [req EXCEPT
                 !.p[i].pc = "updateSet",
                 !.p[i].patch = patch,
                 !.p[i].current = getIntentState(cache, "c1", "u1")]
  /\ UNCHANGED memVars

\* await this.redisCacheService.set(key, JSON.stringify(next), ...)
PendingUpdateSet(i) ==
  /\ req.p[i].pc = "updateSet"
  /\ cache' = updateIntentStateSet(cache, req.p[i].current, "c1", "u1",
                                   req.p[i].patch, None, now)
  /\ req' = [req EXCEPT
               !.p[i].pc = "idle",
               !.p[i].current = defaultIntentState,
               !.p[i].served = @ + 1,
               !.persisted = Some([by |-> i,
                                   read |-> req.p[i].current,
                                   state |-> NextIntentState(req.p[i].current,
                                                             req.p[i].patch,
                                                             now)])]
  /\ UNCHANGED <<cfgMaxStored, cfgTtl, now, ret, log, count>>

NextPending ==
  \/ \E i \in {1, 2} : PendingUpdateGet(i) \/ PendingUpdateSet(i)
  \/ Expire

SpecPending == InitPending /\ [][NextPending]_vars

PendingConsistent(state) ==
  /\ state.pendingClarification = TRUE => state.lastIntent = "uncertain"
  /\ state.lastIntent \in {"on_topic", "off_topic"} =>
       state.pendingClarification = FALSE

\* C37: the intent state a chatStream request persists, and the state read
\* back once a request has persisted one, has pendingClarification only with
\* lastIntent uncertain and has no pendingClarification with lastIntent
\* on_topic or off_topic, however the gets and sets of the requests on the
\* conversation interleave.
C37_PendingOnlyWhenUncertain ==
  req.persisted.some =>
    /\ PendingConsistent(req.persisted.val.state)
    /\ PendingConsistent(getIntentState(cache, "c1", "u1"))

\* request 2 asked for a clarification between the get and the set of
\* request 1, which then persisted on_topic over a stale read
C37_Witness_SetOverStaleRead ==
  /\ req.persisted.some
  /\ req.persisted.val.by = 1
  /\ req.p[2].served = 1
  /\ req.p[2].patch = ClarifyPatch
  /\ req.persisted.val.read.pendingClarification = FALSE
  /\ req.persisted.val.read.lastIntent = "on_topic"
  /\ req.p[1].patch = OffTopicPatch
  /\ req.persisted.val.state.lastIntent = "off_topic"
  /\ getIntentState(cache, "c1", "u1").pendingClarification = FALSE


(***************************************************************************)
(* The two balance updates of a transfer (checked under SpecTransfer;      *)
(* cash-transfer.tool.ts 171-195)                                          *)
(***************************************************************************)
RECURSIVE SumOfBalances(_)
SumOfBalances(accounts) ==
  IF accounts = <<>> THEN 0
  ELSE accounts[1].balance + SumOfBalances(Tail(accounts))

\* the debit of one account and the credit of another by the same amount,
\* and nothing else, lie between the two account lists
BothApplied(before, after) ==
  /\ Len(after) = Len(before)
  /\ \E f, t \in 1..Len(before) :
       /\ f # t
       /\ \E amount \in 1..before[f].balance :
            /\ after[f] = [before[f] EXCEPT !.balance = @ - amount]
            /\ after[t] = [before[t] EXCEPT !.balance = @ + amount]
       /\ \A i \in 1..Len(before) \ {f, t} : after[i] = before[i]

\* C38: after an invocation of cash_transfer, also one whose second balance
\* update fails, either the debit of the source and the credit of the
\* destination have both been applied or neither has, and the sum of the
\* balances of the user's accounts is what it was before the invocation.
C38_TransferAllOrNothing ==
  req.tool = "cash_transfer" =>
    /\ req.accounts = req.before \/ BothApplied(req.before, req.accounts)
    /\ SumOfBalances(req.accounts) = SumOfBalances(req.before)

\* a confirmed transfer of 30 whose credit failed: the accounts hold 30 less
\* than before and no account gained
C38_Witness_SumShortAfterFailedCredit ==
  /\ req.tool = "cash_transfer"
  /\ TransferConditions
  /\ parseArgs(req.input).amount = Some(30)
  /\ SumOfBalances(req.accounts) = SumOfBalances(req.before) - 30
  /\ \A i \in 1..Len(req.accounts) : req.accounts[i].balance <= req.before[i].balance


(***************************************************************************)
(* SpecOverdraft: two confirmed invocations of cash_transfer on the        *)
(* accounts of one user whose awaits interleave: getAccounts with the      *)
(* checks, the debit, the credit (cash-transfer.tool.ts 128-182)           *)
(***************************************************************************)
ConfirmedTransfer(amount, toAccountId) ==
  JObj([amount |-> JNum(amount), fromAccountId |-> JStr("a1"),
        toAccountId |-> JStr(toAccountId), confirm |-> JBool(TRUE)])

ConcurrentInputs ==
  {ConfirmedTransfer(amount, to) : amount \in {30, 70, 200}, to \in {"a2", "a3"}}

OverdraftAccounts ==
  <<Account("a1", "Checking", 100), Account("a2", "Savings", 50),
    Account("a3", "Savings Plus", 0)>>

TransferCall(input) ==
  [pc |-> "getAccounts", input |-> input, fromId |-> "", toId |-> "",
   amount |-> 0, seen |-> 0, kind |-> "none"]

InitOverdraft ==
  /\ cache = <<>>
  /\ cfgMaxStored = None
  /\ cfgTtl = None
  /\ now = 1
  /\ ret = [op |-> "init"]
  /\ log = <<>>
  /\ count = [append |-> 0, update |-> 0]
  /\ \E first \in ConcurrentInputs, second \in ConcurrentInputs :
       req = [accounts |-> OverdraftAccounts,
              p |-> <<TransferCall(first), TransferCall(second)>>]

\* await accountService.getAccounts(userId) and the checks on what it
\* returned (128-156); confirm is true, so a call that passes goes on
TransferGetAccounts(i) ==
  /\ req.p[i].pc = "getAccounts"
  /\ LET args == parseArgs(req.p[i].input)
         checked == cashTransfer(req.accounts, req.p[i].input, "none")
         from == resolveAccount(req.accounts, args.fromAccountId,
                                args.fromAccountName)
         to == resolveAccount(req.accounts, args.toAccountId, args.toAccountName)
     IN req' = IF checked.kind = "completed"
               THEN [req EXCEPT !.p[i].pc = "debit",
                                !.p[i].fromId = from.account.id,
                                !.p[i].toId = to.account.id,
                                !.p[i].amount = args.amount.val,
                                !.p[i].seen = from.account.balance]
               ELSE [req EXCEPT !.p[i].pc = "done",
                                !.p[i].kind = checked.kind]
  /\ UNCHANGED memVars

\* await accountService.updateAccountBalance({accountId: fromAccount.id,
\* amount: -args.amount, ...}) (171-176)
TransferDebit(i) ==
  /\ req.p[i].pc = "debit"
  /\ req' = [req EXCEPT
               !.accounts = updateAccountBalance(@, req.p[i].fromId,
                                                 0 - req.p[i].amount),
               !.p[i].pc = "credit"]
  /\ UNCHANGED memVars

\* await accountService.updateAccountBalance({accountId: toAccount.id,
\* amount: args.amount, ...}) and the return (177-189)
TransferCredit(i) ==
  /\ req.p[i].pc = "credit"
  /\ req' = [req EXCEPT
               !.accounts = updateAccountBalance(@, req.p[i].toId,
                                                 req.p[i].amount),
               !.p[i].pc = "done",
               !.p[i].kind = "completed"]
  /\ UNCHANGED memVars

NextOverdraft ==
  \E i \in {1, 2} :
    \/ TransferGetAccounts(i)
    \/ TransferDebit(i)
    \/ TransferCredit(i)

SpecOverdraft == InitOverdraft /\ [][NextOverdraft]_vars

\* C39: however the confirmed transfers that draw on one source account
\* interleave, the balance of no account falls below zero.
C39_NoOverdraft ==
  \A k \in 1..Len(req.accounts) : req.accounts[k].balance >= 0

\* two transfers of 70 from a1, which held 100, both completed: each saw a
\* balance of 100 and a1 holds -40
C39_Witness_BothCompletedSourceNegative ==
  /\ \A i \in {1, 2} :
       /\ req.p[i].pc = "done"
       /\ req.p[i].kind = "completed"
       /\ req.p[i].amount = 70
       /\ req.p[i].seen = 100
  /\ req.accounts[1].balance = 0 - 40
====
